---- MODULE Spec2Model ----
(***************************************************************************)
(* DNA Triangulation Calculator: the analytical pipeline of                *)
(* utils/triangulationEngine.ts (latest revision, src/unnamed/part_003)    *)
(* and utils/relationshipPredictor.ts (src/unnamed/part_001).              *)
(*                                                                         *)
(* Strings are sequences of one-character strings.  Sizes in cM are        *)
(* integers; ratios (overlap threshold, confidence factors) are exact      *)
(* fractions <<numerator, denominator>>, so the floating-point rounding of *)
(* the last bit is not modelled.  Object identity of a DNAMatch is the     *)
(* field rid (its position among the parsed matches).                      *)
(***************************************************************************)
EXTENDS Integers, Sequences, FiniteSets, TLC

VARIABLES
  name, canon1, canon2, cpc,                       \* canonicalizeName runs
  totalCM, prediction,                             \* predictRelationship runs (result in a list)
  rawA, rawB, outA, outB, dpc,                     \* deduplicateAndMergeMatches runs
  files, settings, genealogicalTree,               \* processTriangulation: arguments
  pc, fileIdx, allRawMatches, nameIssues,          \* processTriangulation: locals
  deduplicatedMatches,                             \* processTriangulation: local
  initialTriangulationGroups,                      \* findTriangulations: local
  progress, groups, error,                         \* progress sink, result, rejection
  onProgress,                                      \* the sink: the messages it throws on
  uploadedFiles, processingStatus, uiError,        \* TriangulationCalculator: React state
  uiTriangulationGroups,
  inFlight,                                        \* the calls of processTriangulation not yet settled
  chromosomeMatches, chromosomeGroups, gpc,        \* findTriangulationsOnChromosome: matches,
  seed, processed, accepted                        \* groups, position, i, processedMatches,
                                                   \* overlappingIndices

canonVars == <<name, canon1, canon2, cpc>>
predVars  == <<totalCM, prediction>>
dedupVars == <<rawA, rawB, outA, outB, dpc>>
pipeVars  == <<files, settings, genealogicalTree, pc, fileIdx, allRawMatches,
               nameIssues, deduplicatedMatches, initialTriangulationGroups,
               progress, groups, error, onProgress>>
uiVars    == <<uploadedFiles, processingStatus, uiError, uiTriangulationGroups>>
sessionVars == <<inFlight>>
groupVars == <<chromosomeMatches, chromosomeGroups, gpc, seed, processed, accepted>>
vars == <<canonVars, predVars, dedupVars, pipeVars, uiVars, sessionVars, groupVars>>

\* The value of a variable that the specification at hand does not use.
Unused == "unused"

(***************************************************************************)
(* Generic sequence helpers                                                *)
(***************************************************************************)
Range(s) == {s[i] : i \in DOMAIN s}

Min2(a, b) == IF a <= b THEN a ELSE b
Max2(a, b) == IF a >= b THEN a ELSE b

RECURSIVE SeqsUpTo(_, _)
\* All sequences over S of length at most n.
SeqsUpTo(S, n) ==
  IF n = 0 THEN {<<>>}
  ELSE LET shorter == SeqsUpTo(S, n - 1)
       IN  shorter \cup {Append(s, x) : s \in {t \in shorter : Len(t) = n - 1}, x \in S}

RECURSIVE FlattenSeq(_)
FlattenSeq(ss) == IF ss = <<>> THEN <<>> ELSE Head(ss) \o FlattenSeq(Tail(ss))

RECURSIVE SumSeq(_)
SumSeq(s) == IF s = <<>> THEN 0 ELSE Head(s) + SumSeq(Tail(s))

RECURSIVE DedupSeq(_)
\* new Set(array) / Set.add in insertion order: first occurrences only.
DedupSeq(s) ==
  IF s = <<>> THEN <<>>
  ELSE LET init == DedupSeq(SubSeq(s, 1, Len(s) - 1))
           x    == s[Len(s)]
       IN  IF x \in Range(init) THEN init ELSE Append(init, x)

(***************************************************************************)
(* String helpers (JavaScript String methods on character sequences)       *)
(***************************************************************************)
LowerLetters == <<"a","b","c","d","e","f","g","h","i","j","k","l","m",
                  "n","o","p","q","r","s","t","u","v","w","x","y","z">>
UpperLetters == <<"A","B","C","D","E","F","G","H","I","J","K","L","M",
                  "N","O","P","Q","R","S","T","U","V","W","X","Y","Z">>
Digits == {"0","1","2","3","4","5","6","7","8","9"}
WhiteSpace == {" ", "\t"}
\* \w of a JavaScript regular expression
WordChars == Range(LowerLetters) \cup Range(UpperLetters) \cup Digits \cup {"_"}

ToLowerChar(c) ==
  IF c \in Range(UpperLetters)
  THEN LowerLetters[CHOOSE i \in DOMAIN UpperLetters : UpperLetters[i] = c]
  ELSE c

\* String.prototype.toLowerCase
ToLower(s) == [i \in DOMAIN s |-> ToLowerChar(s[i])]

RECURSIVE TrimLeft(_)
TrimLeft(s) == IF s # <<>> /\ Head(s) \in WhiteSpace THEN TrimLeft(Tail(s)) ELSE s

RECURSIVE TrimRight(_)
TrimRight(s) ==
  IF s # <<>> /\ s[Len(s)] \in WhiteSpace THEN TrimRight(SubSeq(s, 1, Len(s) - 1)) ELSE s

\* String.prototype.trim
Trim(s) == TrimRight(TrimLeft(s))

RECURSIVE CollapseSpaces(_)
\* s.replace(/\s+/g, ' ')
CollapseSpaces(s) ==
  IF s = <<>> THEN <<>>
  ELSE IF Head(s) \in WhiteSpace
       THEN <<" ">> \o CollapseSpaces(TrimLeft(s))
       ELSE <<Head(s)>> \o CollapseSpaces(Tail(s))

\* String.prototype.includes
Includes(s, t) ==
  \E i \in 0..(Len(s) - Len(t)) : SubSeq(s, i + 1, i + Len(t)) = t

RECURSIVE SplitOn(_, _)
\* s.split(/[seps]/): the parts between separator characters (never empty as a list)
SplitOn(s, seps) ==
  IF \A i \in DOMAIN s : s[i] \notin seps THEN <<s>>
  ELSE LET k == CHOOSE i \in DOMAIN s : s[i] \in seps /\ \A j \in 1..(i - 1) : s[j] \notin seps
       IN  <<SubSeq(s, 1, k - 1)>> \o SplitOn(SubSeq(s, k + 1, Len(s)), seps)

\* Length of the match of /\b(t1|t2|...)\b\.?/ that starts at position i of s, or 0.
\* The alternatives are tried in order; every token starts and ends with a word
\* character, so \b asks for a non-word character (or the string's edge) outside.
TokenMatchLen(s, i, tokens) ==
  LET fits(t) == /\ i + Len(t) - 1 <= Len(s)
                 /\ SubSeq(s, i, i + Len(t) - 1) = t
                 /\ (i + Len(t) > Len(s) \/ s[i + Len(t)] \notin WordChars)
      before  == i = 1 \/ s[i - 1] \notin WordChars
      hits    == {k \in DOMAIN tokens : fits(tokens[k])}
  IN  IF ~before \/ hits = {} THEN 0
      ELSE LET k == CHOOSE h \in hits : \A g \in hits : h <= g
               n == Len(tokens[k])
           IN  IF i + n <= Len(s) /\ s[i + n] = "." THEN n + 1 ELSE n

RECURSIVE StripTokensFrom(_, _, _)
StripTokensFrom(s, i, tokens) ==
  IF i > Len(s) THEN <<>>
  ELSE IF TokenMatchLen(s, i, tokens) > 0
       THEN StripTokensFrom(s, i + TokenMatchLen(s, i, tokens), tokens)
       ELSE <<s[i]>> \o StripTokensFrom(s, i + 1, tokens)

\* s.replace(/\b(t1|t2|...)\b\.?/g, '')
StripTokens(s, tokens) == StripTokensFrom(s, 1, tokens)

(***************************************************************************)
(* canonicalizeName                                                        *)
(***************************************************************************)
\* /\b(jr|sr|ii|iii|iv)\b\.?/g
GenerationalSuffixes == << <<"j","r">>, <<"s","r">>, <<"i","i">>, <<"i","i","i">>, <<"i","v">> >>
\* /\b(mr|mrs|ms|dr|prof)\b\.?/g
CourtesyTitles == << <<"m","r">>, <<"m","r","s">>, <<"m","s">>, <<"d","r">>, <<"p","r","o","f">> >>

\* Lines 288-293: "smith, john" -> "john smith" when there is exactly one comma.
SwapLastFirst(canonical) ==
  IF Includes(canonical, <<",">>) /\ Len(SplitOn(canonical, {","})) = 2
  THEN Trim(Trim(SplitOn(canonical, {","})[2]) \o <<" ">> \o Trim(SplitOn(canonical, {","})[1]))
  ELSE canonical

\* Lines 296-298: the two token removals.
RemoveSuffixesAndTitles(canonical) ==
  StripTokens(StripTokens(canonical, GenerationalSuffixes), CourtesyTitles)

\* A slip that forgets the final whitespace clean-up after the tokens are removed.
canonicalizeNameNoCleanup(n) ==
  IF n = <<>> THEN <<>>
  ELSE RemoveSuffixesAndTitles(SwapLastFirst(CollapseSpaces(Trim(ToLower(n)))))

canonicalizeName(n) ==
  IF n = <<>> THEN <<>>
  ELSE Trim(CollapseSpaces(
         RemoveSuffixesAndTitles(SwapLastFirst(CollapseSpaces(Trim(ToLower(n)))))))

(***************************************************************************)
(* Exact fractions <<n, d>> with d > 0                                     *)
(***************************************************************************)
RECURSIVE Gcd(_, _)
Gcd(a, b) == IF b = 0 THEN a ELSE Gcd(b, a % b)

Abs(x) == IF x < 0 THEN -x ELSE x

Frac(n, d) ==
  LET g == Gcd(Abs(n), d) IN IF g = 0 THEN <<0, 1>> ELSE <<n \div g, d \div g>>

FracOfInt(n) == <<n, 1>>
FracAdd(x, y) == Frac(x[1] * y[2] + y[1] * x[2], x[2] * y[2])
FracMul(x, y) == Frac(x[1] * y[1], x[2] * y[2])
\* x / k for an integer k > 0
FracDivInt(x, k) == Frac(x[1], x[2] * k)
FracLeq(x, y) == x[1] * y[2] <= y[1] * x[2]
\* Math.min
FracMin(x, y) == IF FracLeq(x, y) THEN x ELSE y
\* Math.round: the nearest integer, halves towards +infinity
MathRound(x) == (2 * x[1] + x[2]) \div (2 * x[2])

(***************************************************************************)
(* relationshipPredictor.ts                                                *)
(***************************************************************************)
\* RELATIONSHIP_DATA in entry order; probability in hundredths.
RELATIONSHIP_DATA == <<
  [relationship |-> "Parent/Child",             min |-> 3400, max |-> 3720, probability |-> 99],
  [relationship |-> "Full Sibling",             min |-> 2200, max |-> 3400, probability |-> 95],
  [relationship |-> "Half Sibling",             min |-> 1300, max |-> 2300, probability |-> 85],
  [relationship |-> "Grandparent/Grandchild",   min |-> 1200, max |-> 2300, probability |-> 90],
  [relationship |-> "Aunt/Uncle/Niece/Nephew",  min |-> 1200, max |-> 2300, probability |-> 80],
  [relationship |-> "1st Cousin",               min |-> 550,  max |-> 1300, probability |-> 75],
  [relationship |-> "1st Cousin Once Removed",  min |-> 400,  max |-> 1000, probability |-> 70],
  [relationship |-> "2nd Cousin",               min |-> 200,  max |-> 600,  probability |-> 65],
  [relationship |-> "2nd Cousin Once Removed",  min |-> 150,  max |-> 500,  probability |-> 60],
  [relationship |-> "3rd Cousin",               min |-> 75,   max |-> 200,  probability |-> 55],
  [relationship |-> "3rd Cousin Once Removed",  min |-> 50,   max |-> 150,  probability |-> 50],
  [relationship |-> "4th Cousin",               min |-> 20,   max |-> 100,  probability |-> 45],
  [relationship |-> "5th Cousin",               min |-> 10,   max |-> 50,   probability |-> 40],
  [relationship |-> "6th Cousin",               min |-> 5,    max |-> 25,   probability |-> 35],
  [relationship |-> "7th Cousin",               min |-> 0,    max |-> 15,   probability |-> 30],
  [relationship |-> "8th Cousin",               min |-> 0,    max |-> 10,   probability |-> 25],
  [relationship |-> "9th Cousin",               min |-> 0,    max |-> 5,    probability |-> 20],
  [relationship |-> "10th Cousin",              min |-> 0,    max |-> 3,    probability |-> 15] >>

\* totalCM >= data.min && totalCM <= data.max, for a fraction t
BandContains(data, t) ==
  FracLeq(FracOfInt(data.min), t) /\ FracLeq(t, FracOfInt(data.max))

RECURSIVE BestMatchFrom(_, _, _, _)
\* The for-loop of predictRelationship from entry k on: the index of bestMatch.
BestMatchFrom(k, t, bestMatch, bestScore) ==
  IF k > Len(RELATIONSHIP_DATA) THEN bestMatch
  ELSE LET data == RELATIONSHIP_DATA[k]
       IN  IF BandContains(data, t) /\ data.probability > bestScore
           THEN BestMatchFrom(k + 1, t, k, data.probability)
           ELSE BestMatchFrom(k + 1, t, bestMatch, bestScore)

\* A slip that takes the first band containing the value, whatever its probability.
BestMatchFirstContaining(t) ==
  IF \E k \in DOMAIN RELATIONSHIP_DATA : BandContains(RELATIONSHIP_DATA[k], t)
  THEN CHOOSE k \in DOMAIN RELATIONSHIP_DATA :
         /\ BandContains(RELATIONSHIP_DATA[k], t)
         /\ \A j \in 1..(k - 1) : ~BandContains(RELATIONSHIP_DATA[j], t)
  ELSE 1

BestMatch(t) == BestMatchFrom(1, t, 1, 0)

\* Lines 43-63: the prediction built from the entry chosen.
PredictionOf(data) ==
  [relationship |-> data.relationship,
   probability  |-> data.probability,
   range        |-> <<data.min, data.max>>,
   confidence   |-> IF data.probability >= 80 THEN "high"
                    ELSE IF data.probability >= 60 THEN "medium"
                    ELSE "low"]

predictRelationship(t) == PredictionOf(RELATIONSHIP_DATA[BestMatch(t)])

\* A slip that forgets to cap the size, match-count and total factors at 1.
calculateConfidenceScoreUncapped(averageSize, overlapPercentage, matchCount, total) ==
  LET sizeScore    == FracDivInt(averageSize, 20)
      overlapScore == FracDivInt(overlapPercentage, 100)
      matchScore   == Frac(matchCount, 10)
      totalScore   == FracDivInt(total, 1000)
      confidenceScore ==
        FracAdd(FracAdd(FracMul(sizeScore, <<3, 10>>), FracMul(overlapScore, <<2, 10>>)),
                FracAdd(FracMul(matchScore, <<3, 10>>), FracMul(totalScore, <<2, 10>>)))
  IN  MathRound(FracMul(confidenceScore, <<100, 1>>))

\* averageSize, overlapPercentage and total are fractions, matchCount an integer.
calculateConfidenceScore(averageSize, overlapPercentage, matchCount, total) ==
  LET sizeScore    == FracMin(FracDivInt(averageSize, 20), <<1, 1>>)
      overlapScore == FracDivInt(overlapPercentage, 100)
      matchScore   == FracMin(Frac(matchCount, 10), <<1, 1>>)
      totalScore   == FracMin(FracDivInt(total, 1000), <<1, 1>>)
      confidenceScore ==
        FracAdd(FracAdd(FracMul(sizeScore, <<3, 10>>), FracMul(overlapScore, <<2, 10>>)),
                FracAdd(FracMul(matchScore, <<3, 10>>), FracMul(totalScore, <<2, 10>>)))
  IN  MathRound(FracMul(confidenceScore, <<100, 1>>))

(***************************************************************************)
(* deduplicateAndMergeMatches                                              *)
(*                                                                         *)
(* A RawDNAMatch is a record                                               *)
(*   [rid, matchName, chromosome, startPosition, endPosition, sizeCM,      *)
(*    yHaplogroup, ancestralSurnames, locations, sourceFile, treeMatchInfo]*)
(* An absent optional field is "" (yHaplogroup) or <<>> (lists).           *)
(* sourceFile is the list of file names that join(', ') concatenates.      *)
(* mtHaplogroup, notes and matchingSNPs are merged like yHaplogroup and    *)
(* the lists and are read by no later step; they are left out.             *)
(***************************************************************************)
\* Array.filter(s => s.trim()): the entries that are not blank
NonBlank(list) == SelectSeq(list, LAMBDA x : Trim(x) # <<>>)

\* profileMap.set(canonicalName, {...}) for a key seen for the first time
NewProfile(canonicalName, match) ==
  [canonicalName     |-> canonicalName,
   displayName       |-> match.matchName,
   nameVariations    |-> <<match.matchName>>,
   segments          |-> <<>>,
   yHaplogroup       |-> match.yHaplogroup,
   ancestralSurnames |-> DedupSeq(match.ancestralSurnames),
   locations         |-> DedupSeq(match.locations),
   sourceFiles       |-> match.sourceFile]

\* A slip that treats the multi-value fields like the single-value ones:
\* the first non-empty list wins.
MergeIntoProfileFirstWins(profile, match) ==
  [profile EXCEPT
     !.segments          = Append(@, match),
     !.nameVariations    = DedupSeq(@ \o <<match.matchName>>),
     !.sourceFiles       = DedupSeq(@ \o match.sourceFile),
     !.yHaplogroup       = IF @ = "" /\ match.yHaplogroup # "" THEN match.yHaplogroup ELSE @,
     !.ancestralSurnames = IF @ = <<>> THEN DedupSeq(match.ancestralSurnames) ELSE @,
     !.locations         = IF @ = <<>> THEN DedupSeq(match.locations) ELSE @]

\* A slip that lets the latest spelling of a name become the display name.
MergeIntoProfileLastNameWins(profile, match) ==
  [profile EXCEPT
     !.displayName       = match.matchName,
     !.segments          = Append(@, match),
     !.nameVariations    = DedupSeq(@ \o <<match.matchName>>),
     !.sourceFiles       = DedupSeq(@ \o match.sourceFile),
     !.yHaplogroup       = IF @ = "" /\ match.yHaplogroup # "" THEN match.yHaplogroup ELSE @,
     !.ancestralSurnames = DedupSeq(@ \o match.ancestralSurnames),
     !.locations         = DedupSeq(@ \o match.locations)]

\* The body of the first loop after the profile exists: push the segment, merge the metadata.
MergeIntoProfile(profile, match) ==
  [profile EXCEPT
     !.segments          = Append(@, match),
     !.nameVariations    = DedupSeq(@ \o <<match.matchName>>),
     !.sourceFiles       = DedupSeq(@ \o match.sourceFile),
     !.yHaplogroup       = IF @ = "" /\ match.yHaplogroup # "" THEN match.yHaplogroup ELSE @,
     !.ancestralSurnames = DedupSeq(@ \o match.ancestralSurnames),
     !.locations         = DedupSeq(@ \o match.locations)]

\* Lines 203-217: the map with a profile for canonicalName, created if missing.
EnsureProfile(profileMap, canonicalName, match) ==
  IF \E k \in DOMAIN profileMap : profileMap[k].canonicalName = canonicalName
  THEN profileMap
  ELSE Append(profileMap, NewProfile(canonicalName, match))

\* Lines 219-243 on the profile of canonicalName.
UpdateProfile(profileMap, canonicalName, match) ==
  [k \in DOMAIN profileMap |->
     IF profileMap[k].canonicalName = canonicalName
     THEN MergeIntoProfile(profileMap[k], match)
     ELSE profileMap[k]]

\* One pass of the first loop.
AddToProfileMap(profileMap, canonicalName, match) ==
  UpdateProfile(EnsureProfile(profileMap, canonicalName, match), canonicalName, match)

RECURSIVE BuildProfileMap(_, _)
\* Step 1: profileMap, a Map in insertion order, after the matches of rawMatches.
BuildProfileMap(rawMatches, profileMap) ==
  IF rawMatches = <<>> THEN profileMap
  ELSE BuildProfileMap(Tail(rawMatches),
         AddToProfileMap(profileMap, canonicalizeName(Head(rawMatches).matchName),
                         Head(rawMatches)))

\* A slip that keeps one segment per profile only.
EnrichedSegmentsOnePerProfile(profile) ==
  [i \in {1} |->
     [profile.segments[i] EXCEPT
        !.matchName         = profile.displayName,
        !.sourceFile        = IF Len(profile.sourceFiles) > 1 THEN profile.sourceFiles ELSE @,
        !.yHaplogroup       = profile.yHaplogroup,
        !.ancestralSurnames = NonBlank(profile.ancestralSurnames),
        !.locations         = NonBlank(profile.locations)]]

\* Step 2 for one profile: its segments rewritten with the merged metadata.
EnrichedSegments(profile) ==
  [i \in DOMAIN profile.segments |->
     [profile.segments[i] EXCEPT
        !.matchName         = profile.displayName,
        !.sourceFile        = IF Len(profile.sourceFiles) > 1 THEN profile.sourceFiles ELSE @,
        !.yHaplogroup       = profile.yHaplogroup,
        !.ancestralSurnames = NonBlank(profile.ancestralSurnames),
        !.locations         = NonBlank(profile.locations)]]

\* Step 2: the enriched matches, profile by profile.
EnrichedMatches(profileMap) ==
  FlattenSeq([k \in DOMAIN profileMap |-> EnrichedSegments(profileMap[k])])

deduplicateAndMergeMatches(rawMatches) == EnrichedMatches(BuildProfileMap(rawMatches, <<>>))

(***************************************************************************)
(* parseMatchesFromCSV                                                     *)
(*                                                                         *)
(* A CSVRow is the row after header mapping, its numeric fields already    *)
(* read by parseInt/parseFloat (NaN when unreadable) and its list fields   *)
(* already split: [matchName, chromosome, startPosition, endPosition,      *)
(* sizeCM, yHaplogroup, ancestralSurnames, locations].                     *)
(***************************************************************************)
\* The result of parseInt/parseFloat on text that is no number.
NaN == -1

RECURSIVE DigitsOf(_)
\* The decimal digits of n >= 0, as `${n}` writes them.
DigitsOf(n) ==
  LET d == <<"0","1","2","3","4","5","6","7","8","9">>[(n % 10) + 1]
  IN  IF n < 10 THEN <<d>> ELSE Append(DigitsOf(n \div 10), d)

MatchWord == <<"M", "a", "t", "c", "h", " ">>
FromOpen  == <<" ", "(", "f", "r", "o", "m", " ">>

\* Lines 357-361: only the first of several names is kept.
FirstName(matchName) ==
  IF matchName # <<>> /\ \E i \in DOMAIN matchName : matchName[i] \in {",", ";", "|"}
  THEN Trim(SplitOn(matchName, {",", ";", "|"})[1])
  ELSE matchName

\* A slip whose placeholders leave the source file out.
CheckedNameWithoutSource(first, rowIndex, fileName) ==
  IF first # <<>>
  THEN IF \A i \in DOMAIN first : first[i] \in Digits
       THEN [matchName |-> MatchWord \o first,
             issues    |-> <<<<"Numeric match name", rowIndex, first>>>>]
       ELSE IF Len(first) < 2
       THEN [matchName |-> MatchWord \o <<"\"">> \o first \o <<"\"">>,
             issues    |-> <<<<"Short match name", rowIndex, first>>>>]
       ELSE [matchName |-> first, issues |-> <<>>]
  ELSE [matchName |-> MatchWord \o DigitsOf(rowIndex),
        issues    |-> <<<<"No match name found", rowIndex, <<>>>>>>]

\* Lines 363-380: the name kept for a row and the issue it raises, if any.
CheckedName(first, rowIndex, fileName) ==
  IF first # <<>>
  THEN IF \A i \in DOMAIN first : first[i] \in Digits
       THEN [matchName |-> MatchWord \o first \o FromOpen \o fileName \o <<")">>,
             issues    |-> <<<<"Numeric match name", rowIndex, first>>>>]
       ELSE IF Len(first) < 2
       THEN [matchName |-> MatchWord \o <<"\"">> \o first \o <<"\"">> \o FromOpen
                             \o fileName \o <<")">>,
             issues    |-> <<<<"Short match name", rowIndex, first>>>>]
       ELSE [matchName |-> first, issues |-> <<>>]
  ELSE [matchName |-> MatchWord \o DigitsOf(rowIndex) \o FromOpen \o fileName \o <<")">>,
        issues    |-> <<<<"No match name found", rowIndex, <<>>>>>>]

ExtractMatchName(row, rowIndex, fileName) ==
  CheckedName(FirstName(row.matchName), rowIndex, fileName)

\* A slip that lets every chromosome number through.
ValidRowAnyChromosome(matchName, row, settings_) ==
  /\ matchName # <<>>
  /\ row.chromosome # NaN
  /\ row.startPosition # NaN /\ row.startPosition > 0
  /\ row.endPosition # NaN /\ row.endPosition > row.startPosition
  /\ row.sizeCM # NaN /\ row.sizeCM >= settings_.minimumSize

\* Lines 411-416: the validation of a row.
\* A slip that forgets the minimum size and the order of start and end.
ValidRowAnySizeOrSpan(matchName, row, settings_) ==
  /\ matchName # <<>>
  /\ row.chromosome # NaN /\ row.chromosome >= 1 /\ row.chromosome <= 23
  /\ row.startPosition # NaN /\ row.startPosition > 0
  /\ row.endPosition # NaN
  /\ row.sizeCM # NaN

ValidRow(matchName, row, settings_) ==
  /\ matchName # <<>>
  /\ row.chromosome # NaN /\ row.chromosome >= 1 /\ row.chromosome <= 23
  /\ row.startPosition # NaN /\ row.startPosition > 0
  /\ row.endPosition # NaN /\ row.endPosition > row.startPosition
  /\ row.sizeCM # NaN /\ row.sizeCM >= settings_.minimumSize

\* Lines 418-434: the DNAMatch of a valid row (rid is given by the caller).
MatchOfRow(matchName, row) ==
  [rid |-> 0, matchName |-> matchName, chromosome |-> row.chromosome,
   startPosition |-> row.startPosition, endPosition |-> row.endPosition,
   sizeCM |-> row.sizeCM, yHaplogroup |-> row.yHaplogroup,
   ancestralSurnames |-> NonBlank(row.ancestralSurnames),
   locations |-> NonBlank(row.locations),
   sourceFile |-> <<>>, treeMatchInfo |-> <<>>]

\* One pass of the row loop: the match and the issue of one row, if any.
ParseRow(row, nm, settings_) ==
  [matches |-> IF ValidRow(nm.matchName, row, settings_)
               THEN <<MatchOfRow(nm.matchName, row)>> ELSE <<>>,
   issues  |-> nm.issues]

Concat2(x, y) == [matches |-> x.matches \o y.matches, issues |-> x.issues \o y.issues]

RECURSIVE ParseRows(_, _, _, _)
\* The row loop from row rowIndex on: [matches, issues].
ParseRows(csvData, rowIndex, fileName, settings_) ==
  IF rowIndex > Len(csvData) THEN [matches |-> <<>>, issues |-> <<>>]
  ELSE Concat2(ParseRow(csvData[rowIndex],
                        ExtractMatchName(csvData[rowIndex], rowIndex, fileName), settings_),
               ParseRows(csvData, rowIndex + 1, fileName, settings_))

\* hasRequiredFields stands for the check of the first row's keys (lines 313-334).
parseMatchesFromCSV(csvData, hasRequiredFields, fileName, settings_) ==
  IF csvData = <<>> \/ ~hasRequiredFields THEN [matches |-> <<>>, issues |-> <<>>]
  ELSE ParseRows(csvData, 1, fileName, settings_)

(***************************************************************************)
(* populateDNAMatchTreeInfo                                                *)
(***************************************************************************)
\* extractSurnamesFromName: the last word of a name of several words.
extractSurnamesFromName(n) ==
  LET parts == SplitOn(CollapseSpaces(Trim(n)), {" "})
  IN  IF Len(parts) > 1 THEN <<parts[Len(parts)]>> ELSE <<>>

\* Lines 165-170: some surname of the individual and some surname of the match name
\* contain one another.
SurnamesMatch(surnames, matchSurnames) ==
  \E i \in DOMAIN surnames, j \in DOMAIN matchSurnames :
    \/ Includes(ToLower(surnames[i]), ToLower(matchSurnames[j]))
    \/ Includes(ToLower(matchSurnames[j]), ToLower(surnames[i]))

\* The filter of lines 158-171.
IsMatchingIndividual(individual, match) ==
  \/ Includes(ToLower(individual.name), ToLower(match.matchName))
  \/ Includes(ToLower(match.matchName), ToLower(individual.name))
  \/ SurnamesMatch(individual.surnames, extractSurnamesFromName(match.matchName))

\* Lines 173-191: the treeMatchInfo for the individuals found (<<>> stands for
\* undefined).  The display list treeIndividuals is not modelled.
TreeMatchInfoOf(match, matchingIndividuals) ==
  IF matchingIndividuals # <<>>
  THEN <<[matchName |-> match.matchName,
          commonSurnames |-> DedupSeq(FlattenSeq(
             [i \in DOMAIN matchingIndividuals |-> matchingIndividuals[i].surnames])),
          suggestedAncestors |-> DedupSeq(
             [i \in DOMAIN matchingIndividuals |-> matchingIndividuals[i].name])]>>
  ELSE <<>>

populateDNAMatchTreeInfo(match, tree) ==
  [match EXCEPT !.treeMatchInfo =
     TreeMatchInfoOf(match, SelectSeq(tree.individuals,
                                      LAMBDA ind : IsMatchingIndividual(ind, match)))]

(***************************************************************************)
(* findTriangulationsOnChromosome                                          *)
(***************************************************************************)
RECURSIVE InsertByStart(_, _)
\* x placed after every element whose start is not greater (a stable insertion)
InsertByStart(sorted, x) ==
  IF sorted = <<>> THEN <<x>>
  ELSE IF sorted[Len(sorted)].startPosition <= x.startPosition THEN Append(sorted, x)
  ELSE Append(InsertByStart(SubSeq(sorted, 1, Len(sorted) - 1), x), sorted[Len(sorted)])

\* A slip that leaves the matches in the order they were given.
SortByStartSkipped(matches) == matches

RECURSIVE SortByStart(_)
\* matches.sort((a, b) => a.startPosition - b.startPosition), which is stable
SortByStart(matches) ==
  IF matches = <<>> THEN <<>>
  ELSE InsertByStart(SortByStart(SubSeq(matches, 1, Len(matches) - 1)), matches[Len(matches)])

\* A slip that measures the overlap against the base match instead of the shorter one.
SignificantOverlapOfBase(baseMatch, testMatch, overlapThreshold) ==
  LET overlapStart == Max2(baseMatch.startPosition, testMatch.startPosition)
      overlapEnd   == Min2(baseMatch.endPosition, testMatch.endPosition)
      overlapSize  == overlapEnd - overlapStart
      baseSize     == baseMatch.endPosition - baseMatch.startPosition
  IN  /\ overlapEnd > overlapStart
      /\ FracLeq(overlapThreshold, <<overlapSize, baseSize>>)

\* Lines 613-627: whether testMatch overlaps baseMatch significantly.
SignificantOverlap(baseMatch, testMatch, overlapThreshold) ==
  LET overlapStart == Max2(baseMatch.startPosition, testMatch.startPosition)
      overlapEnd   == Min2(baseMatch.endPosition, testMatch.endPosition)
      overlapSize  == overlapEnd - overlapStart
      baseSize     == baseMatch.endPosition - baseMatch.startPosition
      testSize     == testMatch.endPosition - testMatch.startPosition
      minSize      == Min2(baseSize, testSize)
  IN  /\ overlapEnd > overlapStart
      /\ FracLeq(overlapThreshold, <<overlapSize, minSize>>)

RECURSIVE ScanCandidates(_, _, _, _, _)
\* The inner loop from j on: the indices pushed to overlappingIndices after i.
ScanCandidates(matches, i, j, processedMatches, overlapThreshold) ==
  IF j > Len(matches) THEN <<>>
  ELSE IF j \in processedMatches
       THEN ScanCandidates(matches, i, j + 1, processedMatches, overlapThreshold)
  ELSE IF matches[j].startPosition > matches[i].endPosition THEN <<>>
  ELSE (IF SignificantOverlap(matches[i], matches[j], overlapThreshold) THEN <<j>> ELSE <<>>)
         \o ScanCandidates(matches, i, j + 1, processedMatches, overlapThreshold)

\* Math.max(...list) and Math.min(...list) of a non-empty list of integers
MaxOf(list) == CHOOSE x \in Range(list) : \A y \in Range(list) : y <= x
MinOf(list) == CHOOSE x \in Range(list) : \A y \in Range(list) : x <= y

TotalSizeOf(matches) == SumSeq([k \in DOMAIN matches |-> matches[k].sizeCM])

\* A slip that spans the union of the members instead of their intersection.
NewGroupUnionSpan(chromosome, members, commonAncestors, treeMatches) ==
  [chromosome      |-> chromosome,
   startPosition   |-> MinOf([k \in DOMAIN members |-> members[k].startPosition]),
   endPosition     |-> MaxOf([k \in DOMAIN members |-> members[k].endPosition]),
   matches         |-> members,
   averageSize     |-> Frac(TotalSizeOf(members), Len(members)),
   totalSize       |-> TotalSizeOf(members),
   confidenceScore |-> 0,
   commonAncestors |-> commonAncestors,
   treeMatches     |-> treeMatches,
   relationshipPrediction |-> <<>>]

\* A slip that gives a group the span of its first member.
NewGroupFirstSpan(chromosome, members, commonAncestors, treeMatches) ==
  [chromosome      |-> chromosome,
   startPosition   |-> members[1].startPosition,
   endPosition     |-> members[1].endPosition,
   matches         |-> members,
   averageSize     |-> Frac(TotalSizeOf(members), Len(members)),
   totalSize       |-> TotalSizeOf(members),
   confidenceScore |-> 0,
   commonAncestors |-> commonAncestors,
   treeMatches     |-> treeMatches,
   relationshipPrediction |-> <<>>]

\* The object literal of a new group (lines 641-649 and 563-573).
NewGroup(chromosome, members, commonAncestors, treeMatches) ==
  [chromosome      |-> chromosome,
   startPosition   |-> MaxOf([k \in DOMAIN members |-> members[k].startPosition]),
   endPosition     |-> MinOf([k \in DOMAIN members |-> members[k].endPosition]),
   matches         |-> members,
   averageSize     |-> Frac(TotalSizeOf(members), Len(members)),
   totalSize       |-> TotalSizeOf(members),
   confidenceScore |-> 0,
   commonAncestors |-> commonAncestors,
   treeMatches     |-> treeMatches,
   relationshipPrediction |-> <<>>]

\* A slip that forgets to mark the members of an emitted group as processed.
EmitWithoutMarking(group, overlappingIndices, settings_) ==
  IF /\ Len(group.matches) >= settings_.minimumMatches
     /\ group.endPosition > group.startPosition
  THEN [emitted |-> <<group>>, marked |-> {}]
  ELSE [emitted |-> <<>>, marked |-> {}]

\* Lines 630-650: the group of a seed's overlapping matches, if it qualifies.
EmitIfQualifies(group, overlappingIndices, settings_) ==
  IF /\ Len(group.matches) >= settings_.minimumMatches
     /\ group.endPosition > group.startPosition
  THEN [emitted |-> <<group>>, marked |-> Range(overlappingIndices)]
  ELSE [emitted |-> <<>>, marked |-> {}]

\* Lines 630-639: the group built from the indices collected for a seed.
GroupOfIndices(matches, overlappingIndices) ==
  NewGroup(matches[overlappingIndices[1]].chromosome,
           [k \in DOMAIN overlappingIndices |-> matches[overlappingIndices[k]]],
           <<>>, <<>>)

OverlappingIndices(matches, i, processedMatches, settings_) ==
  <<i>> \o ScanCandidates(matches, i, i + 1, processedMatches, settings_.overlapThreshold)

\* A slip that marks the indices collected for a seed whether or not a group is made.
SeedStepMarkingAlways(matches, overlappingIndices, settings_) ==
  [emitted |-> EmitIfQualifies(GroupOfIndices(matches, overlappingIndices),
                               overlappingIndices, settings_).emitted,
   marked  |-> Range(overlappingIndices)]

\* One pass of the outer loop for seed i: the group it emits (if any) and the
\* indices it marks as processed.
SeedStepOf(matches, overlappingIndices, settings_) ==
  EmitIfQualifies(GroupOfIndices(matches, overlappingIndices), overlappingIndices, settings_)

SeedStep(matches, i, processedMatches, settings_) ==
  SeedStepOf(matches, OverlappingIndices(matches, i, processedMatches, settings_), settings_)

\* The rest of the outer loop once seed i has been handled.
RECURSIVE SeedLoop(_, _, _, _)
AfterSeed(matches, i, processedMatches, settings_, step) ==
  step.emitted \o SeedLoop(matches, i + 1, processedMatches \cup step.marked, settings_)

\* The outer loop from i on.
SeedLoop(matches, i, processedMatches, settings_) ==
  IF i > Len(matches) THEN <<>>
  ELSE IF i \in processedMatches THEN SeedLoop(matches, i + 1, processedMatches, settings_)
  ELSE AfterSeed(matches, i, processedMatches, settings_,
                 SeedStep(matches, i, processedMatches, settings_))

findTriangulationsOnChromosome(matches, settings_) ==
  SeedLoop(SortByStart(matches), 1, {}, settings_)

(***************************************************************************)
(* splitGroupsBySingleCommonAncestor                                       *)
(***************************************************************************)
\* Lines 518-529: the (ancestor, match) pairs of a group, in the order they are met.
AncestorPairs(group) ==
  FlattenSeq([m \in DOMAIN group.matches |->
    FlattenSeq([t \in DOMAIN group.matches[m].treeMatchInfo |->
      [a \in DOMAIN group.matches[m].treeMatchInfo[t].suggestedAncestors |->
         [ancestor |-> group.matches[m].treeMatchInfo[t].suggestedAncestors[a],
          match    |-> group.matches[m]]]])])

\* Lines 538-541: the unique matches filed under one ancestor.
UniqueMatchesOf(ancestor, pairs) ==
  DedupSeq([k \in DOMAIN SelectSeq(pairs, LAMBDA p : p.ancestor = ancestor) |->
              SelectSeq(pairs, LAMBDA p : p.ancestor = ancestor)[k].match])

\* Lines 551-557: the tree matches that name the ancestor.
TreeMatchesOf(ancestor, uniqueMatches) ==
  FlattenSeq([k \in DOMAIN uniqueMatches |->
     SelectSeq(uniqueMatches[k].treeMatchInfo,
               LAMBDA tm : ancestor \in Range(tm.suggestedAncestors))])

\* Lines 543-577: a group is pushed when it is large enough and its span is real.
PushIfQualifies(newGroup, settings_) ==
  IF /\ Len(newGroup.matches) >= settings_.minimumMatches
     /\ newGroup.endPosition > newGroup.startPosition
  THEN <<newGroup>> ELSE <<>>

\* A slip that lists on every sub-group all the ancestors met in the initial group.
SubGroupListingEveryAncestor(initialGroup, ancestor, uniqueMatches) ==
  NewGroup(initialGroup.chromosome, uniqueMatches,
           DedupSeq([k \in DOMAIN AncestorPairs(initialGroup) |->
                       AncestorPairs(initialGroup)[k].ancestor]),
           TreeMatchesOf(ancestor, uniqueMatches))

SubGroupOf(initialGroup, ancestor, uniqueMatches) ==
  NewGroup(initialGroup.chromosome, uniqueMatches, <<ancestor>>,
           TreeMatchesOf(ancestor, uniqueMatches))

\* The sub-group of one ancestor (lines 538-577), or nothing.
GroupForAncestor(initialGroup, ancestor, pairs, settings_) ==
  IF Len(UniqueMatchesOf(ancestor, pairs)) >= settings_.minimumMatches
  THEN PushIfQualifies(SubGroupOf(initialGroup, ancestor, UniqueMatchesOf(ancestor, pairs)),
                       settings_)
  ELSE <<>>

\* Lines 531-536: the ancestors of a group, in the order they are met.
AncestorsOf(pairs) == DedupSeq([k \in DOMAIN pairs |-> pairs[k].ancestor])

\* A slip that keeps every ancestor's sub-group, whatever its size.
SplitGroupKeepAll(initialGroup, pairs, ancestors, settings_) ==
  IF ancestors = <<>> THEN <<initialGroup>>
  ELSE FlattenSeq([a \in DOMAIN ancestors |->
         GroupForAncestor(initialGroup, ancestors[a], pairs,
                          [settings_ EXCEPT !.minimumMatches = 1])])

\* A slip that drops the groups in which no ancestor is met.
SplitGroupDroppingUnreferenced(initialGroup, pairs, ancestors, settings_) ==
  FlattenSeq([a \in DOMAIN ancestors |->
    GroupForAncestor(initialGroup, ancestors[a], pairs, settings_)])

\* The body of the loop over initialGroups: what one group becomes.
SplitGroupBy(initialGroup, pairs, ancestors, settings_) ==
  IF ancestors = <<>> THEN <<initialGroup>>
  ELSE FlattenSeq([a \in DOMAIN ancestors |->
         GroupForAncestor(initialGroup, ancestors[a], pairs, settings_)])

SplitGroup(initialGroup, settings_) ==
  SplitGroupBy(initialGroup, AncestorPairs(initialGroup),
               AncestorsOf(AncestorPairs(initialGroup)), settings_)

splitGroupsBySingleCommonAncestor(initialGroups, settings_) ==
  FlattenSeq([g \in DOMAIN initialGroups |-> SplitGroup(initialGroups[g], settings_)])

(***************************************************************************)
(* findTriangulations                                                      *)
(***************************************************************************)
\* Collation ranks of String.prototype.localeCompare: blanks and punctuation,
\* then digits, then letters; case decides only between otherwise equal strings.
PrimaryOrder == <<" ", "_", "-", ",", ";", ".", "\"", "(", ")", "/",
                  "0","1","2","3","4","5","6","7","8","9">> \o LowerLetters

PrimaryRank(c) ==
  LET l == ToLowerChar(c)
  IN  IF l \in Range(PrimaryOrder)
      THEN CHOOSE k \in DOMAIN PrimaryOrder : PrimaryOrder[k] = l
      ELSE 0

RECURSIVE CompareRanks(_, _)
\* -1, 0 or 1: the lexicographic comparison of two lists of integers
CompareRanks(a, b) ==
  IF a = <<>> /\ b = <<>> THEN 0
  ELSE IF a = <<>> THEN -1
  ELSE IF b = <<>> THEN 1
  ELSE IF Head(a) < Head(b) THEN -1
  ELSE IF Head(a) > Head(b) THEN 1
  ELSE CompareRanks(Tail(a), Tail(b))

\* a.localeCompare(b)
localeCompare(a, b) ==
  LET primary == CompareRanks([i \in DOMAIN a |-> PrimaryRank(a[i])],
                              [i \in DOMAIN b |-> PrimaryRank(b[i])])
      caseOf(x) == [i \in DOMAIN x |-> IF x[i] \in Range(UpperLetters) THEN 1 ELSE 0]
  IN  IF primary # 0 THEN primary ELSE CompareRanks(caseOf(a), caseOf(b))

\* The comparator of lines 487-503: negative, zero or positive.
CompareGroups(a, b) ==
  LET aAncestor == IF Len(a.commonAncestors) > 0 THEN a.commonAncestors[1] ELSE <<>>
      bAncestor == IF Len(b.commonAncestors) > 0 THEN b.commonAncestors[1] ELSE <<>>
  IN  IF aAncestor # bAncestor THEN localeCompare(aAncestor, bAncestor)
      ELSE IF a.chromosome # b.chromosome THEN a.chromosome - b.chromosome
      ELSE a.startPosition - b.startPosition

RECURSIVE InsertGroup(_, _)
InsertGroup(sorted, x) ==
  IF sorted = <<>> THEN <<x>>
  ELSE IF CompareGroups(sorted[Len(sorted)], x) <= 0 THEN Append(sorted, x)
  ELSE Append(InsertGroup(SubSeq(sorted, 1, Len(sorted) - 1), x), sorted[Len(sorted)])

\* A slip that returns the groups in the order of their discovery.
SortGroupsSkipped(list) == list

RECURSIVE SortGroups(_)
\* finalGroups.sort(comparator), which is stable
SortGroups(list) ==
  IF list = <<>> THEN <<>>
  ELSE InsertGroup(SortGroups(SubSeq(list, 1, Len(list) - 1)), list[Len(list)])

\* Lines 459-477: the groups of every chromosome, chromosomes in order of first
\* appearance (the iteration order of matchesByChromosome).
InitialGroups(matches, settings_) ==
  LET chromosomes == DedupSeq([k \in DOMAIN matches |-> matches[k].chromosome])
  IN  FlattenSeq([c \in DOMAIN chromosomes |->
        findTriangulationsOnChromosome(
          SelectSeq(matches, LAMBDA m : m.chromosome = chromosomes[c]), settings_)])

\* Lines 479-484: the groups kept; tree is <<>> for null, else a one-element list.
FinalGroups(initialGroups, settings_, tree) ==
  IF tree # <<>> /\ settings_.enableCrossVerification
  THEN splitGroupsBySingleCommonAncestor(initialGroups, settings_)
  ELSE initialGroups

findTriangulations(matches, settings_, tree) ==
  SortGroups(FinalGroups(InitialGroups(matches, settings_), settings_, tree))

(***************************************************************************)
(* calculateAverageOverlap and the scoring loop of processTriangulation    *)
(***************************************************************************)
\* The overlap percentage of one pair (line 691), or <<>> when they do not overlap.
PairOverlapPercentage(match1, match2) ==
  LET overlapStart == Max2(match1.startPosition, match2.startPosition)
      overlapEnd   == Min2(match1.endPosition, match2.endPosition)
      minSize      == Min2(match1.endPosition - match1.startPosition,
                           match2.endPosition - match2.startPosition)
  IN  IF overlapEnd > overlapStart
      THEN <<Frac((overlapEnd - overlapStart) * 100, minSize)>>
      ELSE <<>>

RECURSIVE FracSum(_)
FracSum(list) == IF list = <<>> THEN <<0, 1>> ELSE FracAdd(Head(list), FracSum(Tail(list)))

\* A slip that compares each match with the next one only.
OverlapPercentagesOfNeighbours(matches) ==
  FlattenSeq([i \in DOMAIN matches |->
    FlattenSeq([j \in DOMAIN matches |->
      IF j = i + 1 THEN PairOverlapPercentage(matches[i], matches[j]) ELSE <<>>])])

\* Lines 677-694: the percentages of the overlapping pairs.
OverlapPercentages(matches) ==
  FlattenSeq([i \in DOMAIN matches |->
    FlattenSeq([j \in DOMAIN matches |->
      IF j > i THEN PairOverlapPercentage(matches[i], matches[j]) ELSE <<>>])])

AverageOf(percentages) ==
  IF percentages = <<>> THEN <<100, 1>>
  ELSE FracDivInt(FracSum(percentages), Len(percentages))

calculateAverageOverlap(matches) ==
  IF Len(matches) < 2 THEN <<100, 1>> ELSE AverageOf(OverlapPercentages(matches))

\* A slip that predicts a relationship whether or not the option is set.
ScoreGroupAlwaysPredicts(group, settings_) ==
  [group EXCEPT
    !.confidenceScore =
       IF settings_.enableConfidenceScoring
       THEN calculateConfidenceScore(group.averageSize,
                                     calculateAverageOverlap(group.matches),
                                     Len(group.matches), FracOfInt(TotalSizeOf(group.matches)))
       ELSE @,
    !.relationshipPrediction = <<predictRelationship(FracOfInt(TotalSizeOf(group.matches)))>>]

\* The body of triangulationGroups.forEach (lines 116-134).
ScoreGroup(group, settings_) ==
  LET total == TotalSizeOf(group.matches)
  IN  [group EXCEPT
        !.confidenceScore =
           IF settings_.enableConfidenceScoring
           THEN calculateConfidenceScore(group.averageSize,
                                         calculateAverageOverlap(group.matches),
                                         Len(group.matches), FracOfInt(total))
           ELSE @,
        !.relationshipPrediction =
           IF settings_.enableRelationshipPrediction
           THEN <<predictRelationship(FracOfInt(total))>>
           ELSE @]

(***************************************************************************)
(* Specification SpecCanon: canonicalizeName applied once and twice        *)
(***************************************************************************)
MaxNameLen == 4
NameChars == {"J", "j", "r", "i", "m", " ", ",", "."}

PipeIdle ==
  /\ files = Unused /\ settings = Unused /\ genealogicalTree = Unused
  /\ pc = Unused /\ fileIdx = 0 /\ allRawMatches = <<>> /\ nameIssues = <<>>
  /\ deduplicatedMatches = <<>> /\ initialTriangulationGroups = <<>>
  /\ progress = <<>> /\ groups = <<>> /\ error = <<>> /\ onProgress = {}
CanonIdle == name = <<>> /\ canon1 = <<>> /\ canon2 = <<>> /\ cpc = Unused
PredIdle  == totalCM = <<0, 1>> /\ prediction = <<>>
DedupIdle == rawA = <<>> /\ rawB = <<>> /\ outA = <<>> /\ outB = <<>> /\ dpc = Unused
UiIdle    ==
  /\ uploadedFiles = <<>> /\ processingStatus = Unused
  /\ uiError = <<>> /\ uiTriangulationGroups = <<>>
  /\ inFlight = <<>>
GroupIdle ==
  /\ chromosomeMatches = <<>> /\ chromosomeGroups = <<>> /\ gpc = Unused
  /\ seed = 0 /\ processed = {} /\ accepted = <<>>

InitCanon ==
  /\ name \in SeqsUpTo(NameChars, MaxNameLen)
  /\ canon1 = <<>> /\ canon2 = <<>> /\ cpc = "input"
  /\ PredIdle /\ DedupIdle /\ PipeIdle /\ UiIdle /\ GroupIdle

Canonicalize ==
  /\ cpc = "input"
  /\ canon1' = canonicalizeName(name)
  /\ cpc' = "once"
  /\ UNCHANGED <<name, canon2, predVars, dedupVars, pipeVars, uiVars, sessionVars, groupVars>>

CanonicalizeAgain ==
  /\ cpc = "once"
  /\ canon2' = canonicalizeName(canon1)
  /\ cpc' = "twice"
  /\ UNCHANGED <<name, canon1, predVars, dedupVars, pipeVars, uiVars, sessionVars, groupVars>>

NextCanon == Canonicalize \/ CanonicalizeAgain

SpecCanon == InitCanon /\ [][NextCanon]_vars

\* C5: canonicalizeName is idempotent: canonicalizing a canonical name changes nothing.
C5_CanonIdempotent == cpc = "twice" => canon2 = canon1

\* A name in "Last, First" form carrying a suffix was rewritten, then canonicalized again.
C5_Witness ==
  /\ cpc = "twice"
  /\ name = <<"J", "r", ",", "i">>
  /\ canon1 = <<"i">>
  /\ canon2 = <<"i">>

(***************************************************************************)
(* Specification SpecPredict: predictRelationship on total shared cM       *)
(* given in halves of a cM, below, inside and above the table's ranges     *)
(***************************************************************************)
MaxTotalCM == 3800

InitPredict ==
  /\ totalCM \in {Frac(n, 2) : n \in (-2)..(2 * MaxTotalCM)}
  /\ prediction = <<>>
  /\ CanonIdle /\ DedupIdle /\ PipeIdle /\ UiIdle /\ GroupIdle

Predict ==
  /\ prediction = <<>>
  /\ prediction' = <<predictRelationship(totalCM)>>
  /\ UNCHANGED <<totalCM, canonVars, dedupVars, pipeVars, uiVars, sessionVars, groupVars>>

NextPredict == Predict

SpecPredict == InitPredict /\ [][NextPredict]_vars

ContainingBands(t) == {k \in DOMAIN RELATIONSHIP_DATA : BandContains(RELATIONSHIP_DATA[k], t)}

\* C7: the predicted band is, among the bands containing totalCM, the one of highest
\* probability (the earliest on a tie), and the table's first entry when none contains
\* it; 3600 cM gives Parent/Child with label high, 300 cM a 2nd-cousin band.
C7_PredictBestBand ==
  prediction # <<>> =>
   LET predicted == prediction[1] IN
    /\ IF ContainingBands(totalCM) = {}
       THEN predicted.relationship = RELATIONSHIP_DATA[1].relationship
       ELSE \E k \in ContainingBands(totalCM) :
              /\ \A j \in ContainingBands(totalCM) :
                   \/ RELATIONSHIP_DATA[j].probability < RELATIONSHIP_DATA[k].probability
                   \/ RELATIONSHIP_DATA[j].probability = RELATIONSHIP_DATA[k].probability /\ k <= j
              /\ predicted.relationship = RELATIONSHIP_DATA[k].relationship
              /\ predicted.probability = RELATIONSHIP_DATA[k].probability
    /\ totalCM = <<3600, 1>> =>
         predicted.relationship = "Parent/Child" /\ predicted.confidence = "high"
    /\ totalCM = <<300, 1>> =>
         predicted.relationship \in {"2nd Cousin", "2nd Cousin Once Removed"}

\* 1300 cM lies in four bands; the most probable one, not the first, was returned.
C7_Witness ==
  /\ totalCM = <<1300, 1>>
  /\ prediction # <<>>
  /\ prediction[1].relationship = "Grandparent/Grandchild"

(***************************************************************************)
(* Specification SpecDedup: deduplicateAndMergeMatches on a list of raw    *)
(* records (rawA) and on a reordering of the same records (rawB)           *)
(***************************************************************************)
MaxDedupRecords == 3

Doe == <<"D", "o", "e">>
Roe == <<"R", "o", "e">>
Poe == <<"P", "o", "e">>
UK == <<"U", "K">>
US == <<"U", "S">>

DedupRecord(matchName, yHaplogroup, ancestralSurnames, locations, sourceFile) ==
  [rid |-> 0, matchName |-> matchName, chromosome |-> 1, startPosition |-> 10,
   endPosition |-> 50, sizeCM |-> 12, yHaplogroup |-> yHaplogroup,
   ancestralSurnames |-> ancestralSurnames, locations |-> locations,
   sourceFile |-> <<sourceFile>>, treeMatchInfo |-> <<>>]

\* Three spellings of one person (key "al"), two of another (key "bo").
DedupPool == {
  DedupRecord(<<"A", "l">>,               "R1b", <<Doe>>,      <<UK>>, "f1"),
  DedupRecord(<<"A", "L">>,               "",    <<Roe>>,      <<>>,     "f2"),
  DedupRecord(<<"a", "l", " ">>,          "I1",  <<Poe, Doe>>, <<US>>, "f2"),
  DedupRecord(<<"B", "o">>,               "",    <<Roe>>,      <<UK>>, "f1"),
  DedupRecord(<<"M", "r", " ", "B", "o">>, "I1", <<>>,         <<US>>, "f2") }

\* The records of a list, numbered by position (the identity of each object).
Numbered(list) == [i \in DOMAIN list |-> [list[i] EXCEPT !.rid = i]]

Permutation(list, f) == [i \in DOMAIN list |-> list[f[i]]]

Bijections(n) == {f \in [1..n -> 1..n] : \A i, j \in 1..n : i # j => f[i] # f[j]}

InitDedup ==
  /\ \E list \in SeqsUpTo(DedupPool, MaxDedupRecords) :
       /\ rawA = Numbered(list)
       /\ \E f \in Bijections(Len(list)) : rawB = Permutation(Numbered(list), f)
  /\ outA = <<>> /\ outB = <<>> /\ dpc = "input"
  /\ CanonIdle /\ PredIdle /\ PipeIdle /\ UiIdle /\ GroupIdle

Deduplicate ==
  /\ dpc = "input"
  /\ outA' = deduplicateAndMergeMatches(rawA)
  /\ outB' = deduplicateAndMergeMatches(rawB)
  /\ dpc' = "merged"
  /\ UNCHANGED <<rawA, rawB, canonVars, predVars, pipeVars, uiVars, sessionVars, groupVars>>

NextDedup == Deduplicate

SpecDedup == InitDedup /\ [][NextDedup]_vars

\* C6: for two orderings of the same raw records, the output records of one canonical
\* key carry the same set of surnames and the same set of locations.
C6_DedupOrderIndependent ==
  dpc = "merged" =>
    \A i \in DOMAIN outA, j \in DOMAIN outB :
      canonicalizeName(outA[i].matchName) = canonicalizeName(outB[j].matchName) =>
        /\ Range(outA[i].ancestralSurnames) = Range(outB[j].ancestralSurnames)
        /\ Range(outA[i].locations) = Range(outB[j].locations)

\* Three spellings of one person were merged from two different orders, and the merged
\* surname lists differ as lists but not as sets.
C6_Witness ==
  /\ dpc = "merged"
  /\ Len(rawA) = 3
  /\ rawA # rawB
  /\ \A i \in DOMAIN rawA : canonicalizeName(rawA[i].matchName) = <<"a", "l">>
  /\ Range(outA[1].ancestralSurnames) = {Doe, Roe, Poe}
  /\ outA[1].ancestralSurnames # outB[1].ancestralSurnames

(***************************************************************************)
(* Specification Spec: processTriangulation                                *)
(*                                                                         *)
(* A File is [name, readable, hasRequiredFields, rows]: readable is        *)
(* whether parseCSV resolves, rows is the csvData it resolves to, and      *)
(* hasRequiredFields whether the first row carries the required keys.      *)
(***************************************************************************)
MaxFiles == 2
MaxRows  == 2

AnnDoe    == <<"A","n","n"," ","D","o","e">>
BobDoe    == <<"B","o","b"," ","D","o","e">>
CyRoe     == <<"C","y"," ","R","o","e">>
DeePoe    == <<"D","e","e"," ","P","o","e">>
EveRoeDoe == <<"E","v","e"," ","R","o","e","-","D","o","e">>
JaneDoe   == <<"J","a","n","e"," ","D","o","e">>
JohnRoe   == <<"J","o","h","n"," ","R","o","e">>

Row(matchName, chromosome, startPosition, endPosition, sizeCM) ==
  [matchName |-> matchName, chromosome |-> chromosome, startPosition |-> startPosition,
   endPosition |-> endPosition, sizeCM |-> sizeCM, yHaplogroup |-> "",
   ancestralSurnames |-> <<>>, locations |-> <<>>]

\* Chromosome 1: three segments that overlap and one far away.
SegmentA == Row(AnnDoe, 1, 10, 50, 12)
SegmentB == Row(BobDoe, 1, 20, 60, 25)
SegmentC == Row(CyRoe,  1, 15, 55, 40)
SegmentD == Row(DeePoe, 1, 1000, 1100, 600)
\* Chromosome 7: three segments of 10 cM, every pair overlapping by 80% or more,
\* and a row whose chromosome number is out of range.
SegmentE == Row(AnnDoe,    7, 100, 150, 10)
SegmentF == Row(DeePoe,    7, 105, 155, 10)
SegmentG == Row(EveRoeDoe, 7, 110, 160, 10)
BadRowH  == Row(BobDoe,   24, 100, 150, 10)

\* The rows a run draws from: one of two families, each listed in file order.
RowFamilies == { <<SegmentA, SegmentC, SegmentB, SegmentD>>,
                 <<SegmentG, SegmentE, BadRowH, SegmentF>> }

\* The row lists of a file: the runs of at most MaxRows consecutive rows of a family.
RowLists(family) ==
  {SubSeq(family, w[1], w[2]) :
     w \in {v \in (1..(Len(family) + 1)) \X (0..Len(family)) :
              v[2] >= v[1] - 1 /\ v[2] - v[1] + 1 <= MaxRows}}

FileName(i) == <<"f">> \o DigitsOf(i)

FileContents(family) ==
  {[readable |-> TRUE, hasRequiredFields |-> TRUE, rows |-> r] : r \in RowLists(family)}
  \cup {[readable |-> FALSE, hasRequiredFields |-> FALSE, rows |-> <<>>],
        [readable |-> TRUE,  hasRequiredFields |-> FALSE, rows |-> <<family[1]>>]}

FileLists(family) ==
  {[i \in DOMAIN contents |->
      [name |-> FileName(i), readable |-> contents[i].readable,
       hasRequiredFields |-> contents[i].hasRequiredFields, rows |-> contents[i].rows]] :
     contents \in SeqsUpTo(FileContents(family), MaxFiles)}

\* DEFAULT_SETTINGS.minimumSize
DefaultMinimumSize == 7

DEFAULT_SETTINGS ==
  [minimumSize |-> DefaultMinimumSize,
   minimumMatches |-> 3,
   overlapThreshold |-> <<1, 2>>,
   enableRelationshipPrediction |-> TRUE,
   enableConfidenceScoring |-> TRUE,
   enableCrossVerification |-> FALSE]

\* The settings of a run: the defaults with minimumMatches and cross-verification
\* varied, or with the two options of the enhanced analysis varied.
SettingsChoices ==
  {[DEFAULT_SETTINGS EXCEPT !.minimumMatches = m, !.enableCrossVerification = c] :
     m \in {2, 3}, c \in BOOLEAN}
  \cup {[DEFAULT_SETTINGS EXCEPT !.enableRelationshipPrediction = p,
                                 !.enableConfidenceScoring = c] : p, c \in BOOLEAN}

PedigreeTree ==
  [individuals |-> << [name |-> JaneDoe, surnames |-> <<Doe>>],
                      [name |-> JohnRoe, surnames |-> <<Roe>>] >>]

Init ==
  /\ \E family \in RowFamilies : files \in FileLists(family)
  /\ settings \in SettingsChoices
  /\ genealogicalTree \in
       IF settings.enableRelationshipPrediction /\ settings.enableConfidenceScoring
       THEN {<<>>, <<PedigreeTree>>} ELSE {<<>>}
  /\ pc = "start" /\ fileIdx = 0 /\ allRawMatches = <<>> /\ nameIssues = <<>>
  /\ deduplicatedMatches = <<>> /\ initialTriangulationGroups = <<>>
  /\ progress = <<>> /\ groups = <<>> /\ error = <<>> /\ onProgress = {}
  /\ CanonIdle /\ PredIdle /\ DedupIdle /\ UiIdle /\ GroupIdle

otherVars == <<canonVars, predVars, dedupVars, uiVars, sessionVars, groupVars>>

\* onProgress(message) throws when the kind of the message is one the sink throws on.
Throws(kind) == kind \in onProgress

\* The error a throwing sink raises.
SinkError == <<"onProgress threw">>

inputVars == <<files, settings, genealogicalTree, onProgress>>

\* Lines 60-68: the call runs up to the first await parseCSV (or past the empty loop).
StartRun ==
  /\ pc = "start"
  /\ IF Throws("Parsing uploaded CSV files...")
     THEN /\ pc' = "failed" /\ error' = SinkError
          /\ UNCHANGED <<fileIdx, progress>>
     ELSE /\ pc' = "parsing" /\ fileIdx' = 1
          /\ progress' = Append(progress, <<"Parsing uploaded CSV files...">>)
          /\ UNCHANGED error
  /\ UNCHANGED <<inputVars, allRawMatches, nameIssues,
                 deduplicatedMatches, initialTriangulationGroups, groups, otherVars>>

\* Line 76: each match marked with its source file; rid stands for the identity
\* of the object, the position it takes in allRawMatches.
MarkedMatches(matches, fileName, collected) ==
  [k \in DOMAIN matches |->
     [matches[k] EXCEPT !.sourceFile = <<fileName>>, !.rid = collected + k]]

\* A slip whose error message leaves the file name out.
ProcessingErrorUnnamed(file) == <<"Error processing", <<>>>>

\* Line 81: the error thrown by the catch block around the parsing of a file.
ProcessingError(file) == <<"Error processing", file.name>>

\* Lines 68-79: parseCSV resolves for file fileIdx and its matches are collected.
\* The message of line 68 is sent outside the try block, that of line 79 inside.
CollectParsed(file, parsed) ==
  IF Throws("Processing file")
  THEN /\ pc' = "failed" /\ error' = SinkError
       /\ UNCHANGED <<allRawMatches, nameIssues, progress, fileIdx>>
  ELSE /\ allRawMatches' =
            allRawMatches \o MarkedMatches(parsed.matches, file.name, Len(allRawMatches))
       /\ nameIssues' = nameIssues \o parsed.issues
       /\ IF Throws("Found DNA segments")
          THEN /\ pc' = "failed" /\ error' = ProcessingError(file)
               /\ progress' = Append(progress,
                                     <<"Processing file", fileIdx, Len(files), file.name>>)
               /\ UNCHANGED fileIdx
          ELSE /\ progress' = progress \o
                    << <<"Processing file", fileIdx, Len(files), file.name>>,
                       <<"Found DNA segments", Len(parsed.matches), file.name>> >>
               /\ fileIdx' = fileIdx + 1
               /\ UNCHANGED <<pc, error>>

ParseFileOk ==
  /\ pc = "parsing" /\ fileIdx <= Len(files) /\ files[fileIdx].readable
  /\ CollectParsed(files[fileIdx],
                   parseMatchesFromCSV(files[fileIdx].rows, files[fileIdx].hasRequiredFields,
                                       files[fileIdx].name, settings))
  /\ UNCHANGED <<inputVars, deduplicatedMatches, initialTriangulationGroups, groups,
                 otherVars>>

\* Lines 80-82: parseCSV rejects for file fileIdx and the run is rejected.
ParseFileFails ==
  /\ pc = "parsing" /\ fileIdx <= Len(files) /\ ~files[fileIdx].readable
  /\ IF Throws("Processing file")
     THEN error' = SinkError /\ UNCHANGED progress
     ELSE /\ error' = ProcessingError(files[fileIdx])
          /\ progress' = Append(progress, <<"Processing file", fileIdx, Len(files),
                                            files[fileIdx].name>>)
  /\ pc' = "failed"
  /\ UNCHANGED <<inputVars, fileIdx, allRawMatches, nameIssues,
                 deduplicatedMatches, initialTriangulationGroups, groups, otherVars>>

\* A slip that never takes the early exit.
NoValidSegmentsIgnored(matches) == FALSE

\* Line 85: allRawMatches.length === 0
NoValidSegments(matches) == Len(matches) = 0

\* Lines 85-87: no valid segment in any file.
RejectNoData ==
  /\ pc = "parsing" /\ fileIdx > Len(files)
  /\ NoValidSegments(allRawMatches)
  /\ error' = <<"No valid DNA segment data found in uploaded files">>
  /\ pc' = "failed"
  /\ UNCHANGED <<inputVars, fileIdx, allRawMatches, nameIssues,
                 deduplicatedMatches, initialTriangulationGroups, progress, groups, otherVars>>

\* Lines 100-106: the tree information set on every match, when there is a tree.
Enrich(matches, settings_, tree) ==
  IF tree # <<>> /\ settings_.enableCrossVerification
  THEN [k \in DOMAIN matches |-> populateDNAMatchTreeInfo(matches[k], tree[1])]
  ELSE matches

\* Lines 114-135: the enhanced analysis, when either option asks for it.
ApplyEnhancedAnalysis(triangulationGroups, settings_) ==
  IF settings_.enableRelationshipPrediction \/ settings_.enableConfidenceScoring
  THEN [g \in DOMAIN triangulationGroups |-> ScoreGroup(triangulationGroups[g], settings_)]
  ELSE triangulationGroups

\* Line 473: one message per chromosome, in the order of matchesByChromosome.
ChromosomeMessages(matches) ==
  LET chromosomes == DedupSeq([k \in DOMAIN matches |-> matches[k].chromosome])
  IN  [c \in DOMAIN chromosomes |->
         <<"Analyzing chromosome", chromosomes[c],
           Len(SelectSeq(matches, LAMBDA m : m.chromosome = chromosomes[c]))>>]

\* The onProgress calls of lines 90-137, 195-275 and 457-482, in order.
AnalysisMessages(rawMatches, issues, profiles, matches, found, settings_, tree) ==
  (IF issues # <<>> THEN << <<"Warning: unclear names", Len(issues)>> >> ELSE <<>>)
  \o << <<"Deduplicating and merging", Len(rawMatches)>>,
        <<"Building canonicalization map...">>,
        <<"Merged segments into unique individuals", Len(rawMatches), profiles>>,
        <<"Created enriched DNA segments", Len(matches)>> >>
  \o (IF tree # <<>> /\ settings_.enableCrossVerification
      THEN << <<"Enriching DNA matches with genealogical tree data...">> >> ELSE <<>>)
  \o << <<"Processing deduplicated DNA segments", Len(matches)>>,
        <<"Grouping segments by chromosome...">> >>
  \o ChromosomeMessages(matches)
  \o (IF tree # <<>> /\ settings_.enableCrossVerification
      THEN << <<"Splitting groups by common ancestors...">> >> ELSE <<>>)
  \o (IF settings_.enableRelationshipPrediction \/ settings_.enableConfidenceScoring
      THEN << <<"Applying enhanced analysis...">> >> ELSE <<>>)
  \o << <<"Analysis complete", found>> >>

\* The messages sent before the sink first throws (all of them when it never does).
RECURSIVE SentBeforeThrow(_)
SentBeforeThrow(messages) ==
  IF messages = <<>> \/ Throws(Head(messages)[1]) THEN <<>>
  ELSE <<Head(messages)>> \o SentBeforeThrow(Tail(messages))

\* Lines 89-139 once everything is computed: the run returns the groups, unless
\* the sink throws on one of the messages, which rejects the run.
FinishAnalysis(matches, initialGroups, scoredGroups, messages) ==
  /\ progress' = progress \o SentBeforeThrow(messages)
  /\ IF \E k \in DOMAIN messages : Throws(messages[k][1])
     THEN /\ pc' = "failed" /\ error' = SinkError
          /\ UNCHANGED <<deduplicatedMatches, initialTriangulationGroups, groups>>
     ELSE /\ pc' = "done"
          /\ deduplicatedMatches' = matches
          /\ initialTriangulationGroups' = initialGroups
          /\ groups' = scoredGroups
          /\ UNCHANGED error

\* Lines 89-139 on the enriched matches.
AnalyseMatches(matches, scoredGroups) ==
  FinishAnalysis(matches, InitialGroups(matches, settings), scoredGroups,
                 AnalysisMessages(allRawMatches, nameIssues,
                                  Len(BuildProfileMap(allRawMatches, <<>>)),
                                  matches, Len(scoredGroups), settings, genealogicalTree))

\* Lines 108-135 on the enriched matches.
GroupsOf(matches) ==
  ApplyEnhancedAnalysis(findTriangulations(matches, settings, genealogicalTree), settings)

AnalyseEnriched(matches) == AnalyseMatches(matches, GroupsOf(matches))

\* Lines 89-139 with a sink that throws on no message: every message is sent and
\* the groups are returned.
AnalyseToTheEnd ==
  /\ deduplicatedMatches' =
       Enrich(deduplicateAndMergeMatches(allRawMatches), settings, genealogicalTree)
  /\ initialTriangulationGroups' = InitialGroups(deduplicatedMatches', settings)
  /\ groups' = GroupsOf(deduplicatedMatches')
  /\ progress' = progress \o
       AnalysisMessages(allRawMatches, nameIssues, Len(BuildProfileMap(allRawMatches, <<>>)),
                        deduplicatedMatches', Len(groups'), settings, genealogicalTree)
  /\ pc' = "done"
  /\ UNCHANGED error

\* Lines 89-139: the rest of the run, which never awaits.
Analyse ==
  /\ pc = "parsing" /\ fileIdx > Len(files)
  /\ ~NoValidSegments(allRawMatches)
  /\ IF onProgress = {}
     THEN AnalyseToTheEnd
     ELSE AnalyseEnriched(Enrich(deduplicateAndMergeMatches(allRawMatches), settings,
                                 genealogicalTree))
  /\ UNCHANGED <<inputVars, fileIdx, allRawMatches, nameIssues, otherVars>>

Next == StartRun \/ ParseFileOk \/ ParseFileFails \/ RejectNoData \/ Analyse

Spec == Init /\ [][Next]_vars

(***************************************************************************)
(* processTriangulation on files with malformed names and rows, on several *)
(* chromosomes, and with a progress sink that throws                       *)
(***************************************************************************)
\* Rows whose name is purely numeric, or one character long.
NumericNameRow == Row(<<"9">>, 7, 100, 150, 10)
ShortNameRow   == Row(<<"X">>, 7, 105, 155, 10)
\* Rows that fail validation: the start after the end, the start at the end, and
\* a size under DEFAULT_SETTINGS.minimumSize.
ReversedRow == Row(CyRoe,  7, 150, 100, 10)
FlatRow     == Row(CyRoe,  7, 120, 120, 10)
SmallRow    == Row(DeePoe, 7, 105, 155, 6)

WideRowLists ==
  { <<SegmentE, SegmentA>>,
    <<NumericNameRow, ShortNameRow>>,
    <<BadRowH, SegmentE, ReversedRow, FlatRow>>,
    <<SegmentG, SmallRow>>,
    <<SmallRow>> }

WideFileContents ==
  {[readable |-> TRUE, hasRequiredFields |-> TRUE, rows |-> r] : r \in WideRowLists}
  \cup {[readable |-> FALSE, hasRequiredFields |-> FALSE, rows |-> <<>>],
        [readable |-> TRUE,  hasRequiredFields |-> FALSE, rows |-> <<SegmentE>>]}

WideFileLists ==
  {[i \in DOMAIN contents |->
      [name |-> FileName(i), readable |-> contents[i].readable,
       hasRequiredFields |-> contents[i].hasRequiredFields, rows |-> contents[i].rows]] :
     contents \in SeqsUpTo(WideFileContents, MaxFiles)}

WideSettings ==
  {[DEFAULT_SETTINGS EXCEPT !.minimumMatches = 2, !.enableCrossVerification = c] :
     c \in BOOLEAN}

\* The sinks a caller may pass: one that returns normally on every message, and
\* sinks that throw on the messages of one kind.
ThrowingSinks ==
  { {"Parsing uploaded CSV files..."}, {"Processing file"}, {"Found DNA segments"},
    {"Grouping segments by chromosome..."}, {"Analysis complete"} }

InitInputs(fileLists, sinks) ==
  /\ files \in fileLists
  /\ settings \in WideSettings
  /\ genealogicalTree \in {<<>>, <<PedigreeTree>>}
  /\ onProgress \in sinks
  /\ pc = "start" /\ fileIdx = 0 /\ allRawMatches = <<>> /\ nameIssues = <<>>
  /\ deduplicatedMatches = <<>> /\ initialTriangulationGroups = <<>>
  /\ progress = <<>> /\ groups = <<>> /\ error = <<>>
  /\ CanonIdle /\ PredIdle /\ DedupIdle /\ UiIdle /\ GroupIdle

InitWide == InitInputs(WideFileLists, {{}})

SpecWide == InitWide /\ [][Next]_vars

InitSink == InitInputs(WideFileLists, {{}} \cup ThrowingSinks)

SpecSink == InitSink /\ [][Next]_vars

(***************************************************************************)
(* TriangulationCalculator: handleProcessFiles around processTriangulation *)
(***************************************************************************)
CalculatorRowLists == { <<SegmentE, SegmentA>>, <<SegmentG, SmallRow>>, <<SmallRow>> }

CalculatorFileContents ==
  {[readable |-> TRUE, hasRequiredFields |-> TRUE, rows |-> r] : r \in CalculatorRowLists}
  \cup {[readable |-> FALSE, hasRequiredFields |-> FALSE, rows |-> <<>>],
        [readable |-> TRUE,  hasRequiredFields |-> FALSE, rows |-> <<SegmentE>>]}

CalculatorFileLists ==
  {[i \in DOMAIN contents |->
      [name |-> FileName(i), readable |-> contents[i].readable,
       hasRequiredFields |-> contents[i].hasRequiredFields, rows |-> contents[i].rows]] :
     contents \in SeqsUpTo(CalculatorFileContents, MaxFiles)}

\* The component after the user uploaded files: no run yet.
InitCalculator ==
  /\ uploadedFiles \in CalculatorFileLists
  /\ settings \in WideSettings
  /\ genealogicalTree \in {<<>>, <<PedigreeTree>>}
  /\ processingStatus = "idle" /\ uiError = <<>> /\ uiTriangulationGroups = <<>>
  /\ inFlight = <<>>
  /\ files = <<>> /\ onProgress = {}
  /\ pc = Unused /\ fileIdx = 0 /\ allRawMatches = <<>> /\ nameIssues = <<>>
  /\ deduplicatedMatches = <<>> /\ initialTriangulationGroups = <<>>
  /\ progress = <<>> /\ groups = <<>> /\ error = <<>>
  /\ CanonIdle /\ PredIdle /\ DedupIdle /\ GroupIdle

\* Lines 75-91: the handler up to the first await of processTriangulation, whose
\* sink (setProcessingMessage) never throws.
handleProcessFiles ==
  /\ pc = Unused
  /\ IF Len(uploadedFiles) = 0
     THEN /\ uiError' = <<"Please upload at least one CSV file to process.">>
          /\ UNCHANGED <<processingStatus, pipeVars>>
     ELSE /\ processingStatus' = "processing"
          /\ uiError' = <<>>
          /\ files' = uploadedFiles
          /\ pc' = "parsing" /\ fileIdx' = 1
          /\ progress' = << <<"Reading uploaded files...">>,
                            <<"Parsing uploaded CSV files...">> >>
          /\ allRawMatches' = <<>> /\ nameIssues' = <<>>
          /\ deduplicatedMatches' = <<>> /\ initialTriangulationGroups' = <<>>
          /\ groups' = <<>> /\ error' = <<>>
          /\ UNCHANGED <<settings, genealogicalTree, onProgress>>
  /\ UNCHANGED <<uploadedFiles, uiTriangulationGroups, sessionVars, canonVars, predVars,
                 dedupVars, groupVars>>

\* Lines 93-99: processTriangulation resolved.
ShowResults ==
  /\ pc = "done"
  /\ uiTriangulationGroups' = groups
  /\ processingStatus' = "completed"
  /\ progress' = Append(progress, <<"Found triangulation groups", Len(groups)>>)
  /\ uploadedFiles' = <<>>
  /\ pc' = Unused
  /\ UNCHANGED <<uiError, inputVars, fileIdx, allRawMatches, nameIssues, deduplicatedMatches,
                 initialTriangulationGroups, groups, error, sessionVars, canonVars, predVars,
                 dedupVars, groupVars>>

\* errorMessage.includes(phrase)
MessageIncludes(errorMessage, phrase) == \E k \in DOMAIN errorMessage : errorMessage[k] = phrase

\* Lines 101-123: the text shown for an error message.
DisplayedError(errorMessage, settings_) ==
  IF MessageIncludes(errorMessage, "Could not identify required columns")
  THEN <<"CSV Header Recognition Issue">> \o errorMessage
  ELSE IF MessageIncludes(errorMessage, "No valid DNA segment data found in uploaded files")
  THEN <<"No Valid Data Found">> \o errorMessage \o <<settings_.minimumSize>>
  ELSE errorMessage

\* Lines 100-128: processTriangulation rejected.
ShowError ==
  /\ pc = "failed"
  /\ uiError' = <<DisplayedError(error, settings)>>
  /\ processingStatus' = "error"
  /\ progress' = <<>>
  /\ pc' = Unused
  /\ UNCHANGED <<uploadedFiles, uiTriangulationGroups, inputVars, fileIdx, allRawMatches,
                 nameIssues, deduplicatedMatches, initialTriangulationGroups, groups, error,
                 sessionVars, canonVars, predVars, dedupVars, groupVars>>

NextCalculator ==
  \/ handleProcessFiles \/ ParseFileOk \/ ParseFileFails \/ RejectNoData \/ Analyse
  \/ ShowResults \/ ShowError

SpecCalculator == InitCalculator /\ [][NextCalculator]_vars

(***************************************************************************)
(* TriangulationCalculator: the user's events and the calls of             *)
(* processTriangulation they leave in flight.  A call is taken from its    *)
(* start to the moment its promise settles; the messages it sends in       *)
(* between, the page, the selection and the header preview are left out.   *)
(***************************************************************************)
MaxRuns == 2

RECURSIVE CollectFrom(_, _, _, _)
\* Lines 66-83: the matches of the files from file i on, or the error of the
\* first file that cannot be read.
CollectFrom(fs, i, collected, settings_) ==
  IF i > Len(fs) THEN [matches |-> collected, error |-> <<>>]
  ELSE IF ~fs[i].readable THEN [matches |-> collected, error |-> ProcessingError(fs[i])]
  ELSE CollectFrom(fs, i + 1,
         collected \o MarkedMatches(
           parseMatchesFromCSV(fs[i].rows, fs[i].hasRequiredFields, fs[i].name,
                               settings_).matches,
           fs[i].name, Len(collected)),
         settings_)

\* Lines 85-139: what the promise settles to once the files are collected.
SettleCollected(collected, settings_, tree) ==
  IF collected.error # <<>> THEN [groups |-> <<>>, error |-> collected.error]
  ELSE IF NoValidSegments(collected.matches)
  THEN [groups |-> <<>>, error |-> <<"No valid DNA segment data found in uploaded files">>]
  ELSE [groups |-> ApplyEnhancedAnalysis(
                     findTriangulations(
                       Enrich(deduplicateAndMergeMatches(collected.matches), settings_, tree),
                       settings_, tree),
                     settings_),
        error |-> <<>>]

\* processTriangulation(files, settings, onProgress, genealogicalTree) with a sink
\* that never throws: the groups it resolves to, or the error it rejects with.
processTriangulation(fs, settings_, tree) ==
  SettleCollected(CollectFrom(fs, 1, <<>>, settings_), settings_, tree)

SessionFile(rows, readable) ==
  [name |-> FileName(1), readable |-> readable, hasRequiredFields |-> readable, rows |-> rows]

\* What the user may upload: a file with a group in it, a file without any valid
\* row, a file that cannot be read.
SessionUploads ==
  { <<SessionFile(<<SegmentE, SegmentG>>, TRUE)>>,
    <<SessionFile(<<SmallRow>>, TRUE)>>,
    <<SessionFile(<<>>, FALSE)>> }

\* The component as mounted: nothing uploaded, nothing shown, no call in flight.
InitSession ==
  /\ uploadedFiles = <<>> /\ processingStatus = "idle"
  /\ uiError = <<>> /\ uiTriangulationGroups = <<>>
  /\ inFlight = <<>>
  /\ settings \in WideSettings
  /\ genealogicalTree \in {<<>>, <<PedigreeTree>>}
  /\ files = <<>> /\ onProgress = {}
  /\ pc = Unused /\ fileIdx = 0 /\ allRawMatches = <<>> /\ nameIssues = <<>>
  /\ deduplicatedMatches = <<>> /\ initialTriangulationGroups = <<>>
  /\ progress = <<>> /\ groups = <<>> /\ error = <<>>
  /\ CanonIdle /\ PredIdle /\ DedupIdle /\ GroupIdle

sessionFrame == <<files, onProgress, pc, fileIdx, allRawMatches, nameIssues,
                  deduplicatedMatches, initialTriangulationGroups, groups, error,
                  canonVars, predVars, dedupVars, groupVars>>

\* Lines 48-53: the upload replaces the files and clears what is shown.
handleFilesUploaded ==
  /\ \E uploaded \in SessionUploads : uploadedFiles' = uploaded
  /\ uiError' = <<>>
  /\ uiTriangulationGroups' = <<>>
  /\ processingStatus' = "idle"
  /\ UNCHANGED <<settings, genealogicalTree, progress, inFlight, sessionFrame>>

\* Lines 276-279 and 75-91: a click on the Calculate button, which is enabled when
\* there are uploaded files and the status is not 'processing'; the handler runs up
\* to its await, with the files, settings and tree of the render it closed over.
ClickCalculate ==
  /\ Len(uploadedFiles) # 0 /\ processingStatus # "processing"
  /\ Len(inFlight) < MaxRuns
  /\ processingStatus' = "processing"
  /\ progress' = << <<"Reading uploaded files...">> >>
  /\ uiError' = <<>>
  /\ inFlight' = Append(inFlight, [files |-> uploadedFiles, settings |-> settings,
                                   genealogicalTree |-> genealogicalTree])
  /\ UNCHANGED <<uploadedFiles, uiTriangulationGroups, settings, genealogicalTree,
                 sessionFrame>>

\* Lines 131-140: Reset Calculator.
handleReset ==
  /\ uploadedFiles' = <<>>
  /\ uiTriangulationGroups' = <<>>
  /\ processingStatus' = "idle"
  /\ progress' = <<>>
  /\ uiError' = <<>>
  /\ genealogicalTree' = <<>>
  /\ UNCHANGED <<settings, inFlight, sessionFrame>>

\* The calls in flight but the r-th.
OthersInFlight(r) ==
  SubSeq(inFlight, 1, r - 1) \o SubSeq(inFlight, r + 1, Len(inFlight))

SettledAs(r) ==
  processTriangulation(inFlight[r].files, inFlight[r].settings, inFlight[r].genealogicalTree)

\* Lines 93-99: the continuation of the handler when a call in flight resolves.
RunResolves ==
  \E r \in DOMAIN inFlight :
    /\ SettledAs(r).error = <<>>
    /\ uiTriangulationGroups' = SettledAs(r).groups
    /\ processingStatus' = "completed"
    /\ progress' = << <<"Found triangulation groups", Len(uiTriangulationGroups')>> >>
    /\ uploadedFiles' = <<>>
    /\ inFlight' = OthersInFlight(r)
    /\ UNCHANGED <<uiError, settings, genealogicalTree, sessionFrame>>

\* Lines 100-128: the catch block of the handler when a call in flight rejects.
RunRejects ==
  \E r \in DOMAIN inFlight :
    /\ SettledAs(r).error # <<>>
    /\ uiError' = <<DisplayedError(SettledAs(r).error, inFlight[r].settings)>>
    /\ processingStatus' = "error"
    /\ progress' = <<>>
    /\ inFlight' = OthersInFlight(r)
    /\ UNCHANGED <<uploadedFiles, uiTriangulationGroups, settings, genealogicalTree,
                   sessionFrame>>

NextSession ==
  handleFilesUploaded \/ ClickCalculate \/ handleReset \/ RunResolves \/ RunRejects

SpecSession == InitSession /\ [][NextSession]_vars

(***************************************************************************)
(* findTriangulationsOnChromosome, one pass of the outer loop at a time    *)
(***************************************************************************)
MaxGroupMatches == 4

\* The start and end positions of the segments of a chromosome.
GroupSpans == { <<1, 2>>, <<1, 3>>, <<1, 4>>, <<2, 3>>, <<2, 4>>, <<3, 4>>, <<4, 5>> }

GroupSegment(span) == MatchOfRow(AnnDoe, Row(AnnDoe, 1, span[1], span[2], 10))

GroupSettings ==
  {[DEFAULT_SETTINGS EXCEPT !.minimumMatches = m, !.overlapThreshold = t] :
     m \in {2, 3}, t \in {<<1, 2>>, <<4, 5>>}}

InitGroup ==
  /\ \E spans \in SeqsUpTo(GroupSpans, MaxGroupMatches) :
       chromosomeMatches = Numbered([k \in DOMAIN spans |-> GroupSegment(spans[k])])
  /\ settings \in GroupSettings
  /\ chromosomeGroups = <<>> /\ gpc = "called"
  /\ seed = 0 /\ processed = {} /\ accepted = <<>>
  /\ files = Unused /\ genealogicalTree = Unused
  /\ pc = Unused /\ fileIdx = 0 /\ allRawMatches = <<>> /\ nameIssues = <<>>
  /\ deduplicatedMatches = <<>> /\ initialTriangulationGroups = <<>>
  /\ progress = <<>> /\ groups = <<>> /\ error = <<>> /\ onProgress = {}
  /\ CanonIdle /\ PredIdle /\ DedupIdle /\ UiIdle

notGroupVars == <<canonVars, predVars, dedupVars, pipeVars, uiVars, sessionVars>>

\* Lines 588-594: the matches sorted in place, the loop entered.
SortMatches ==
  /\ gpc = "called"
  /\ chromosomeMatches' = SortByStart(chromosomeMatches)
  /\ seed' = 1 /\ gpc' = "loop"
  /\ UNCHANGED <<chromosomeGroups, processed, accepted, notGroupVars>>

\* Line 595: an index that is in a group already is no seed.
SkipProcessed ==
  /\ gpc = "loop" /\ seed <= Len(chromosomeMatches) /\ seed \in processed
  /\ seed' = seed + 1
  /\ UNCHANGED <<chromosomeMatches, chromosomeGroups, gpc, processed, accepted, notGroupVars>>

\* Lines 630-656 for the indices collected for the seed.
EmitSeed(step) ==
  /\ chromosomeGroups' = chromosomeGroups \o step.emitted
  /\ processed' = processed \cup step.marked

\* Lines 597-657: one pass of the outer loop for an index that is in no group yet.
ScanSeed ==
  /\ gpc = "loop" /\ seed <= Len(chromosomeMatches) /\ seed \notin processed
  /\ accepted' = OverlappingIndices(chromosomeMatches, seed, processed, settings)
  /\ EmitSeed(SeedStepOf(chromosomeMatches, accepted', settings))
  /\ seed' = seed + 1
  /\ UNCHANGED <<chromosomeMatches, gpc, notGroupVars>>

\* Line 659: the loop is over and the groups are returned.
ReturnGroups ==
  /\ gpc = "loop" /\ seed > Len(chromosomeMatches)
  /\ gpc' = "returned"
  /\ UNCHANGED <<chromosomeMatches, chromosomeGroups, seed, processed, accepted, notGroupVars>>

NextGroup == SortMatches \/ SkipProcessed \/ ScanSeed \/ ReturnGroups

SpecGroup == InitGroup /\ [][NextGroup]_vars

(***************************************************************************)
(* Properties of processTriangulation                                      *)
(***************************************************************************)
Finished == pc = "done"
SplittingRan == genealogicalTree # <<>> /\ settings.enableCrossVerification

RidsOf(group) == {group.matches[m].rid : m \in DOMAIN group.matches}

\* The ancestors a match references.
AncestorsReferencedBy(match) ==
  UNION {Range(match.treeMatchInfo[t].suggestedAncestors) : t \in DOMAIN match.treeMatchInfo}

\* The output groups on the chromosome of input segment rid that hold it.
GroupsHolding(rid) ==
  {g \in DOMAIN groups :
     /\ groups[g].chromosome = allRawMatches[rid].chromosome
     /\ rid \in RidsOf(groups[g])}

Shape(m) == <<m.chromosome, m.startPosition, m.endPosition, m.sizeCM>>

\* The run's input is exactly the rows given, one segment each, in any order and files.
InputIs(rows) ==
  /\ Len(allRawMatches) = Cardinality(rows)
  /\ {Shape(allRawMatches[k]) : k \in DOMAIN allRawMatches} = {Shape(r) : r \in rows}

ShapesOf(group) == {Shape(group.matches[m]) : m \in DOMAIN group.matches}

\* C1 as stated: after any run, with or without ancestor splitting, every input
\* segment is a member of at most one output group on its chromosome.
C1_AtMostOneGroupPerSegment ==
  Finished => \A rid \in DOMAIN allRawMatches : Cardinality(GroupsHolding(rid)) <= 1

\* C1, amended: after a run in which ancestor splitting did not take place every
\* input segment is a member of at most one output group on its chromosome; after
\* a run in which it did, of at most one output group per suggested ancestor.
C1_AtMostOneGroupPerSegmentAndAncestor ==
  Finished =>
    \A rid \in DOMAIN allRawMatches :
      /\ ~SplittingRan => Cardinality(GroupsHolding(rid)) <= 1
      /\ SplittingRan =>
           \A g, h \in GroupsHolding(rid) :
             groups[g].commonAncestors = groups[h].commonAncestors => g = h

\* A run with splitting in which a segment that references two ancestors ends in
\* the sub-group of each.
C1_Witness ==
  /\ Finished /\ SplittingRan
  /\ \E rid \in DOMAIN allRawMatches :
       /\ Cardinality(GroupsHolding(rid)) = 2
       /\ \A g, h \in GroupsHolding(rid) :
            groups[g].commonAncestors = groups[h].commonAncestors => g = h

\* C2: grouping A[10,50], B[20,60], C[15,55] and D[1000,1100] on chromosome 1
\* with threshold 0.5 and minimumMatches 3 yields exactly one group, of span
\* [20,50], whose members are exactly A, B and C; D is in no group.
C2_ExampleGroup ==
  (/\ Finished
   /\ InputIs({SegmentA, SegmentB, SegmentC, SegmentD})
   /\ settings.minimumMatches = 3 /\ settings.overlapThreshold = <<1, 2>>)
  => /\ Len(initialTriangulationGroups) = 1
     /\ initialTriangulationGroups[1].chromosome = 1
     /\ initialTriangulationGroups[1].startPosition = 20
     /\ initialTriangulationGroups[1].endPosition = 50
     /\ Len(initialTriangulationGroups[1].matches) = 3
     /\ ShapesOf(initialTriangulationGroups[1])
          = {Shape(SegmentA), Shape(SegmentB), Shape(SegmentC)}
     /\ ~SplittingRan =>
          /\ Len(groups) = 1
          /\ groups[1].startPosition = 20 /\ groups[1].endPosition = 50
          /\ ShapesOf(groups[1]) = {Shape(SegmentA), Shape(SegmentB), Shape(SegmentC)}

C2_Witness ==
  /\ Finished
  /\ InputIs({SegmentA, SegmentB, SegmentC, SegmentD})
  /\ settings.minimumMatches = 3 /\ ~SplittingRan
  /\ Len(groups) = 1 /\ Len(groups[1].matches) = 3

\* C3: every group processTriangulation returns, sub-groups of ancestor splitting
\* included, has its chromosome in 1..23, startPosition < endPosition and at
\* least settings.minimumMatches members.
C3_GroupsWellFormed ==
  Finished =>
    \A g \in DOMAIN groups :
      /\ groups[g].chromosome \in 1..23
      /\ groups[g].startPosition < groups[g].endPosition
      /\ Len(groups[g].matches) >= settings.minimumMatches

\* A run that returns a sub-group of ancestor splitting and a row of chromosome 24
\* was among the rows read.
C3_Witness ==
  /\ Finished /\ SplittingRan
  /\ \E g \in DOMAIN groups : groups[g].commonAncestors # <<>>
  /\ \E i \in DOMAIN files : \E r \in DOMAIN files[i].rows : files[i].rows[r].chromosome = 24

\* The weighted sum of C4 as a percentage, N / D, for a group of n members of
\* total size T whose average overlap is p / q:
\*   30*min((T/n)/20, 1) + 20*(p/q)/100 + 30*min(n/10, 1) + 20*min(T/1000, 1).
WeightedNumerator(n, T, p, q) ==
  150 * q * Min2(T, 20 * n) + 20 * n * p + 300 * n * q * Min2(n, 10)
    + 2 * n * q * Min2(T, 1000)
WeightedDenominator(n, q) == 100 * n * q

\* s is N / D rounded to the nearest integer.
IsRounded(s, N, D) == 2 * s * D <= 2 * N + D /\ 2 * N + D < 2 * (s + 1) * D

HasFormulaScore(group) ==
  IsRounded(group.confidenceScore,
            WeightedNumerator(Len(group.matches), TotalSizeOf(group.matches),
                              calculateAverageOverlap(group.matches)[1],
                              calculateAverageOverlap(group.matches)[2]),
            WeightedDenominator(Len(group.matches), calculateAverageOverlap(group.matches)[2]))

\* C4: with confidence scoring enabled, the confidenceScore of every emitted
\* group is an integer in 0..100 equal to the rounded weighted sum
\* 0.3*min(avgSizeCM/20,1) + 0.2*(averageOverlap/100) + 0.3*min(memberCount/10,1)
\* + 0.2*min(totalCM/1000,1) expressed as a percentage.
C4_ConfidenceScore ==
  (Finished /\ settings.enableConfidenceScoring) =>
    \A g \in DOMAIN groups :
      /\ groups[g].confidenceScore \in 0..100
      /\ HasFormulaScore(groups[g])

\* A scored group whose average size is above the 20 cM cap.
C4_Witness ==
  /\ Finished /\ settings.enableConfidenceScoring
  /\ \E g \in DOMAIN groups :
       /\ TotalSizeOf(groups[g].matches) > 20 * Len(groups[g].matches)
       /\ groups[g].confidenceScore > 0

\* The members of an initial group that reference ancestor a.
MembersReferencing(initialGroup, a) ==
  {initialGroup.matches[m].rid :
     m \in {k \in DOMAIN initialGroup.matches :
              a \in AncestorsReferencedBy(initialGroup.matches[k])}}

AncestorsIn(initialGroup) ==
  UNION {AncestorsReferencedBy(initialGroup.matches[m]) : m \in DOMAIN initialGroup.matches}

\* The output groups made of members of an initial group.
OutputsOf(initialGroup) ==
  {g \in DOMAIN groups :
     /\ groups[g].chromosome = initialGroup.chromosome
     /\ RidsOf(groups[g]) \subseteq RidsOf(initialGroup)}

\* C8: ancestor splitting of a group in which some member references an ancestor
\* emits exactly one sub-group for each distinct ancestor whose members number
\* at least minimumMatches and none for a smaller subset, members without an
\* ancestor are in no sub-group, and the original group is not emitted.
C8_AncestorSplit ==
  (Finished /\ SplittingRan) =>
    \A i \in DOMAIN initialTriangulationGroups :
      LET initialGroup == initialTriangulationGroups[i]
      IN  AncestorsIn(initialGroup) # {} =>
            /\ \A a \in AncestorsIn(initialGroup) :
                 LET subGroups == {g \in OutputsOf(initialGroup) :
                                     groups[g].commonAncestors = <<a>>}
                 IN  IF Cardinality(MembersReferencing(initialGroup, a))
                          >= settings.minimumMatches
                     THEN /\ Cardinality(subGroups) = 1
                          /\ \A g \in subGroups :
                               /\ RidsOf(groups[g]) = MembersReferencing(initialGroup, a)
                               /\ Len(groups[g].matches)
                                    = Cardinality(MembersReferencing(initialGroup, a))
                     ELSE subGroups = {}
            /\ \A g \in OutputsOf(initialGroup) :
                 /\ Len(groups[g].commonAncestors) = 1
                 /\ groups[g].commonAncestors[1] \in AncestorsIn(initialGroup)
            /\ \A m \in DOMAIN initialGroup.matches :
                 AncestorsReferencedBy(initialGroup.matches[m]) = {} =>
                   \A g \in DOMAIN groups : initialGroup.matches[m].rid \notin RidsOf(groups[g])

\* The group of Ann Doe, Bob Doe and Cy Roe with minimumMatches 2: two members
\* reference Jane Doe and one John Roe, and the Jane Doe pair is the only output.
C8_Witness ==
  /\ Finished /\ SplittingRan /\ settings.minimumMatches = 2
  /\ InputIs({SegmentA, SegmentB, SegmentC})
  /\ Len(initialTriangulationGroups) = 1
  /\ Cardinality(MembersReferencing(initialTriangulationGroups[1], JaneDoe)) = 2
  /\ Cardinality(MembersReferencing(initialTriangulationGroups[1], JohnRoe)) = 1
  /\ Len(groups) = 1
  /\ groups[1].commonAncestors = <<JaneDoe>>
  /\ ShapesOf(groups[1]) = {Shape(SegmentA), Shape(SegmentB)}

\* Three 10 cM segments on chromosome 7, every pair overlapping by 80% or more,
\* run without tree enrichment at threshold 0.5 and minimumMatches 3.
ThreeOnChromosome7 ==
  /\ Finished /\ ~SplittingRan
  /\ InputIs({SegmentE, SegmentF, SegmentG})
  /\ settings.minimumMatches = 3 /\ settings.overlapThreshold = <<1, 2>>

\* C9 as stated: the run yields exactly one group, of 3 members, whose confidence
\* score is the value of the confidence formula, and which carries a relationship
\* prediction if and only if enableRelationshipPrediction is set.
C9_EndToEnd ==
  ThreeOnChromosome7 =>
    /\ Len(groups) = 1
    /\ Len(groups[1].matches) = 3
    /\ HasFormulaScore(groups[1])
    /\ groups[1].relationshipPrediction # <<>> <=> settings.enableRelationshipPrediction

\* C9, amended: the run yields exactly one group, of 3 members, which carries a
\* relationship prediction if and only if enableRelationshipPrediction is set;
\* its confidence score is the value of the confidence formula when
\* enableConfidenceScoring is set and 0 when it is not.
C9_EndToEndWhenScoring ==
  ThreeOnChromosome7 =>
    /\ Len(groups) = 1
    /\ Len(groups[1].matches) = 3
    /\ settings.enableConfidenceScoring => HasFormulaScore(groups[1])
    /\ ~settings.enableConfidenceScoring => groups[1].confidenceScore = 0
    /\ groups[1].relationshipPrediction # <<>> <=> settings.enableRelationshipPrediction

C9_Witness ==
  /\ ThreeOnChromosome7
  /\ settings.enableConfidenceScoring /\ ~settings.enableRelationshipPrediction
  /\ Len(groups) = 1 /\ groups[1].confidenceScore = 42
  /\ groups[1].relationshipPrediction = <<>>

\* No row of any file passes validation.
NoRowPasses ==
  \A i \in DOMAIN files :
    files[i].readable =>
      parseMatchesFromCSV(files[i].rows, files[i].hasRequiredFields,
                          files[i].name, settings).matches = <<>>

\* The messages that deduplication, grouping and scoring start with.
AnalysisSteps ==
  {"Deduplicating and merging", "Building canonicalization map...",
   "Processing deduplicated DNA segments", "Grouping segments by chromosome...",
   "Analyzing chromosome", "Applying enhanced analysis...", "Analysis complete"}

\* C10: when no row of any source passes validation (no sources included), the
\* run never finishes normally: it ends in an error, returns no groups, and
\* deduplication, grouping and scoring never run.
C10_NoValidDataFails ==
  NoRowPasses =>
    /\ pc # "done"
    /\ groups = <<>> /\ deduplicatedMatches = <<>> /\ initialTriangulationGroups = <<>>
    /\ \A k \in DOMAIN progress : progress[k][1] \notin AnalysisSteps
    /\ (pc = "parsing" /\ fileIdx > Len(files)) => ENABLED RejectNoData
    /\ pc = "failed" => error # <<>>

\* A run over files whose only rows are invalid ends in the "no valid data" error.
C10_Witness ==
  /\ NoRowPasses
  /\ \E i \in DOMAIN files : files[i].hasRequiredFields /\ files[i].rows # <<>>
  /\ pc = "failed"
  /\ error = <<"No valid DNA segment data found in uploaded files">>
  /\ groups = <<>>

\* ---------------------------------------------------------------------------
\* Failures of a source
\* ---------------------------------------------------------------------------

\* File i has data rows, but its headers resolve none of the required fields.
UnresolvedFields(i) ==
  files[i].readable /\ files[i].rows # <<>> /\ ~files[i].hasRequiredFields

\* File i has been parsed by the run so far.
Parsed(i) == pc # "start" /\ (i < fileIdx \/ (i = fileIdx /\ pc = "failed"))

\* C11: once a source whose required fields are unresolved has been parsed, the
\* run is aborted with an error naming that source, whatever the other sources hold.
C11_MissingColumnsAbort ==
  \A i \in DOMAIN files :
    (UnresolvedFields(i) /\ Parsed(i)) =>
      pc = "failed" /\ Len(error) >= 2 /\ error[2] = files[i].name

\* File k is the first one whose reading or parsing fails.
FirstFailing(k) ==
  ~files[k].readable /\ \A j \in 1..(k - 1) : files[j].readable

\* C12: when reading or parsing source k fails, the run is rejected at source k
\* with an error that carries the name of that source, no source after k is read,
\* and no groups are produced.
C12_SourceFailureAborts ==
  \A k \in DOMAIN files :
    FirstFailing(k) =>
      /\ fileIdx <= k
      /\ pc # "done" /\ groups = <<>>
      /\ (pc = "parsing" /\ fileIdx = k) => ENABLED ParseFileFails /\ ~ENABLED ParseFileOk
      /\ pc = "failed" =>
           /\ fileIdx = k
           /\ Len(error) >= 2 /\ error[1] = "Error processing" /\ error[2] = files[k].name
      /\ \A m \in DOMAIN progress :
           progress[m][1] = "Processing file" => progress[m][2] <= k
      /\ \A m \in DOMAIN allRawMatches :
           \E j \in 1..(k - 1) : allRawMatches[m].sourceFile = <<files[j].name>>

\* The second of two sources fails after the first one contributed segments.
C12_Witness ==
  /\ Len(files) = 2 /\ FirstFailing(2)
  /\ allRawMatches # <<>>
  /\ pc = "failed" /\ error = <<"Error processing", files[2].name>>
  /\ groups = <<>>

\* ---------------------------------------------------------------------------
\* Deduplication: display names and the frame
\* ---------------------------------------------------------------------------

\* The position in raw of the first record with the canonical key of raw[i].
FirstWithKeyOf(raw, i) ==
  CHOOSE j \in DOMAIN raw :
    /\ canonicalizeName(raw[j].matchName) = canonicalizeName(raw[i].matchName)
    /\ \A h \in 1..(j - 1) :
         canonicalizeName(raw[h].matchName) # canonicalizeName(raw[i].matchName)

\* The position in raw of the record with identity rid.
PositionOf(raw, rid) == CHOOSE i \in DOMAIN raw : raw[i].rid = rid

\* Every record of out carries the raw name of the first record of raw with its key.
FirstNameWins(raw, out) ==
  \A k \in DOMAIN out :
    out[k].matchName = raw[FirstWithKeyOf(raw, PositionOf(raw, out[k].rid))].matchName

\* C14: for every canonical key, the display name on all output records of that
\* key is the raw name of the first input record with that key.
C14_FirstNameIsDisplayName ==
  dpc = "merged" => FirstNameWins(rawA, outA) /\ FirstNameWins(rawB, outB)

\* A later spelling of a key was replaced by the first spelling of that key.
C14_Witness ==
  /\ dpc = "merged"
  /\ \E k \in DOMAIN outA :
       /\ rawA[outA[k].rid].matchName # outA[k].matchName
       /\ FirstWithKeyOf(rawA, outA[k].rid) < outA[k].rid
       /\ outA[k].matchName = rawA[FirstWithKeyOf(rawA, outA[k].rid)].matchName

\* The record of out differs from the record of raw in display name and merged
\* metadata at most.
SameButNameAndMetadata(rawRecord, outRecord) ==
  [outRecord EXCEPT !.matchName = rawRecord.matchName,
                    !.sourceFile = rawRecord.sourceFile,
                    !.yHaplogroup = rawRecord.yHaplogroup,
                    !.ancestralSurnames = rawRecord.ancestralSurnames,
                    !.locations = rawRecord.locations] = rawRecord

\* out holds exactly one record per record of raw, each with the segment of its
\* raw record.
OneRecordPerInput(raw, out) ==
  /\ Len(out) = Len(raw)
  /\ \A i \in DOMAIN raw :
       \E k \in DOMAIN out :
         /\ out[k].rid = i
         /\ \A h \in DOMAIN out : out[h].rid = i => h = k
         /\ out[k].chromosome = raw[i].chromosome
         /\ out[k].startPosition = raw[i].startPosition
         /\ out[k].endPosition = raw[i].endPosition
         /\ out[k].sizeCM = raw[i].sizeCM
         /\ SameButNameAndMetadata(raw[i], out[k])

\* C15: deduplicateAndMergeMatches returns exactly one record per input record,
\* each with the chromosome, start, end and size of its input record; only the
\* display name and the merged metadata may differ.
C15_DedupKeepsEverySegment ==
  OneRecordPerInput(allRawMatches, deduplicateAndMergeMatches(allRawMatches))

\* Two segments of one person from two files went through deduplication: both are
\* still there, with merged source files.
C15_Witness ==
  /\ pc = "done"
  /\ \E i, j \in DOMAIN allRawMatches :
       /\ i < j
       /\ canonicalizeName(allRawMatches[i].matchName)
            = canonicalizeName(allRawMatches[j].matchName)
       /\ \E k \in DOMAIN deduplicatedMatches :
            /\ deduplicatedMatches[k].rid = j
            /\ deduplicatedMatches[k].sourceFile # allRawMatches[j].sourceFile
  /\ OneRecordPerInput(allRawMatches, deduplicateAndMergeMatches(allRawMatches))

\* ---------------------------------------------------------------------------
\* The order of the returned groups
\* ---------------------------------------------------------------------------

\* The sort key of a group: the name of its first common ancestor (empty when it
\* has none), its chromosome, its start position.
GroupKey(g) ==
  <<IF g.commonAncestors # <<>> THEN g.commonAncestors[1] ELSE <<>>,
    g.chromosome, g.startPosition>>

KeyLeq(a, b) ==
  \/ a[1] # b[1] /\ localeCompare(a[1], b[1]) < 0
  \/ a[1] = b[1] /\ a[2] < b[2]
  \/ a[1] = b[1] /\ a[2] = b[2] /\ a[3] <= b[3]

\* The groups of a list by key and members, in the order of the list.
OrderOf(list) == [k \in DOMAIN list |-> <<GroupKey(list[k]), RidsOf(list[k])>>]

\* C13: the returned list of groups is sorted non-decreasingly by (first common
\* ancestor name, chromosome, start position), and it is the list findTriangulations
\* returned, in the same order: scoring and prediction move no group.
C13_GroupsSorted ==
  Finished =>
    /\ \A k \in 1..(Len(groups) - 1) : KeyLeq(GroupKey(groups[k]), GroupKey(groups[k + 1]))
    /\ OrderOf(groups)
         = OrderOf(findTriangulations(deduplicatedMatches, settings, genealogicalTree))

\* The group of chromosome 7 was found before that of chromosome 1 and is returned
\* after it, with scoring and prediction on.
C13_Witness ==
  /\ Finished
  /\ settings.enableConfidenceScoring /\ settings.enableRelationshipPrediction
  /\ Len(initialTriangulationGroups) = 2 /\ Len(groups) = 2
  /\ initialTriangulationGroups[1].chromosome = 7
  /\ initialTriangulationGroups[2].chromosome = 1
  /\ groups[1].chromosome = 1 /\ groups[2].chromosome = 7

\* ---------------------------------------------------------------------------
\* Suspicious match names
\* ---------------------------------------------------------------------------

\* part occurs in text.
Embeds(text, part) ==
  \E i \in 1..(Len(text) - Len(part) + 1) : SubSeq(text, i, i + Len(part) - 1) = part

\* The name of a row before any check: the text before the first separator.
NameCell(row) == FirstName(row.matchName)

\* A name that is purely numeric, or shorter than 2 characters.
Suspicious(cell) ==
  cell # <<>> /\ ((\A i \in DOMAIN cell : cell[i] \in Digits) \/ Len(cell) < 2)

\* The row is within the thresholds of the settings.
PassesThresholds(row) ==
  /\ row.chromosome \in 1..23
  /\ row.startPosition > 0 /\ row.startPosition < row.endPosition
  /\ row.sizeCM >= settings.minimumSize

\* File i was read and its rows were collected.
Collected(i) == pc # "start" /\ i < fileIdx /\ files[i].readable /\ files[i].hasRequiredFields

\* The collected rows with a suspicious name.
SuspiciousRows ==
  {w \in (DOMAIN files) \X (UNION {DOMAIN files[i].rows : i \in DOMAIN files}) :
     /\ Collected(w[1]) /\ w[2] \in DOMAIN files[w[1]].rows
     /\ Suspicious(NameCell(files[w[1]].rows[w[2]]))}

\* The name is a placeholder that embeds the file name and, with the row index asked
\* for, the index of the row (counted from 0 or from 1), else the name it replaces.
IsPlaceholder(matchName, cell, fileName, rowIndex, withRowIndex) ==
  /\ matchName # cell
  /\ Embeds(matchName, fileName)
  /\ IF withRowIndex
     THEN Embeds(matchName, DigitsOf(rowIndex)) \/ Embeds(matchName, DigitsOf(rowIndex - 1))
     ELSE Embeds(matchName, cell)

\* Every collected row with a suspicious name has a segment under a placeholder name
\* (when it is within the thresholds) and an entry in the list of name issues, and
\* the run fails for other reasons only: an unreadable file.
SuspiciousNamesHandled(withRowIndex) ==
  /\ \A w \in SuspiciousRows :
       /\ PassesThresholds(files[w[1]].rows[w[2]]) =>
            \E m \in DOMAIN allRawMatches :
              /\ allRawMatches[m].sourceFile = <<files[w[1]].name>>
              /\ Shape(allRawMatches[m]) = Shape(files[w[1]].rows[w[2]])
              /\ IsPlaceholder(allRawMatches[m].matchName, NameCell(files[w[1]].rows[w[2]]),
                               files[w[1]].name, w[2], withRowIndex)
       /\ Cardinality({k \in DOMAIN nameIssues :
                         /\ nameIssues[k][1] \in {"Numeric match name", "Short match name"}
                         /\ nameIssues[k][2] = w[2]
                         /\ nameIssues[k][3] = NameCell(files[w[1]].rows[w[2]])})
            = Cardinality({v \in SuspiciousRows :
                             /\ v[2] = w[2]
                             /\ NameCell(files[v[1]].rows[v[2]])
                                  = NameCell(files[w[1]].rows[w[2]])})
  /\ (SuspiciousRows # {} /\ pc = "failed") =>
       /\ fileIdx \in DOMAIN files /\ ~files[fileIdx].readable
       /\ error = <<"Error processing", files[fileIdx].name>>

OutsideThresholds(row) ==
  \/ row.chromosome < 1 \/ row.chromosome > 23
  \/ row.startPosition >= row.endPosition
  \/ row.sizeCM < settings.minimumSize

\* The segments collected from file i with the chromosome, start, end and size of row.
SegmentsOfRow(i, row) ==
  {m \in DOMAIN allRawMatches :
     allRawMatches[m].sourceFile = <<files[i].name>> /\ Shape(allRawMatches[m]) = Shape(row)}

\* The rows collected so far, as pairs <<file, row index>>.
CollectedRows ==
  {w \in (DOMAIN files) \X (UNION {DOMAIN files[i].rows : i \in DOMAIN files}) :
     Collected(w[1]) /\ w[2] \in DOMAIN files[w[1]].rows}

\* C19: a row with a chromosome outside 1..23, a start not below its end or a size
\* under settings.minimumSize yields no segment and is in no output group, the run
\* fails over no such row (only over an unreadable file, or when no row of any file
\* is valid), and the valid rows of the same file are collected.
C19_InvalidRowsSkipped ==
  /\ \A w \in CollectedRows :
       IF OutsideThresholds(files[w[1]].rows[w[2]])
       THEN /\ SegmentsOfRow(w[1], files[w[1]].rows[w[2]]) = {}
            /\ \A g \in DOMAIN groups :
                 Shape(files[w[1]].rows[w[2]]) \notin ShapesOf(groups[g])
       ELSE SegmentsOfRow(w[1], files[w[1]].rows[w[2]]) # {}
  /\ Len(allRawMatches)
       = Cardinality({w \in CollectedRows : ~OutsideThresholds(files[w[1]].rows[w[2]])})
  /\ pc = "failed" =>
       \/ /\ fileIdx \in DOMAIN files /\ ~files[fileIdx].readable
          /\ error = <<"Error processing", files[fileIdx].name>>
       \/ /\ fileIdx > Len(files)
          /\ \A w \in CollectedRows : OutsideThresholds(files[w[1]].rows[w[2]])

\* A run over a file with rows on chromosome 24, with start after end and with start
\* at end, and a file with a row under the minimum size, finished with the group of
\* the two valid rows.
C19_Witness ==
  /\ Finished
  /\ Len(files) = 2
  /\ files[1].rows = <<BadRowH, SegmentE, ReversedRow, FlatRow>>
  /\ files[2].rows = <<SegmentG, SmallRow>>
  /\ Len(allRawMatches) = 2
  /\ \E g \in DOMAIN groups : ShapesOf(groups[g]) = {Shape(SegmentE), Shape(SegmentG)}

\* ---------------------------------------------------------------------------
\* The progress sink
\* ---------------------------------------------------------------------------

RECURSIVE RawMatchesFrom(_, _)
\* The segments of the files from file i on, added to those collected before.
RawMatchesFrom(i, collected) ==
  IF i > Len(files) THEN collected
  ELSE RawMatchesFrom(i + 1,
         collected \o MarkedMatches(
           parseMatchesFromCSV(files[i].rows, files[i].hasRequiredFields,
                               files[i].name, settings).matches,
           files[i].name, Len(collected)))

\* The outcome of the run over raw matches collected from readable files.
OutcomeOf(rawMatches) ==
  IF rawMatches = <<>>
  THEN [groups |-> <<>>, error |-> <<"No valid DNA segment data found in uploaded files">>]
  ELSE [groups |-> GroupsOf(Enrich(deduplicateAndMergeMatches(rawMatches), settings,
                                   genealogicalTree)),
        error  |-> <<>>]

\* The outcome of the run on files, settings and tree when the sink returns normally
\* on every message: the groups returned, or the error of the rejection.
QuietOutcome ==
  IF \E k \in DOMAIN files : ~files[k].readable
  THEN [groups |-> <<>>,
        error  |-> <<"Error processing",
                     files[CHOOSE k \in DOMAIN files :
                             ~files[k].readable /\ \A j \in 1..(k - 1) : files[j].readable]
                       .name>>]
  ELSE OutcomeOf(RawMatchesFrom(1, <<>>))

\* C18: whatever the progress sink does, a run that has ended has the outcome (the
\* groups, or the error) that the same files, settings and tree have with a sink
\* that returns normally.
C18_SinkIndependent ==
  pc \in {"done", "failed"} => groups = QuietOutcome.groups /\ error = QuietOutcome.error

\* ---------------------------------------------------------------------------
\* The failure shown to the user
\* ---------------------------------------------------------------------------

\* The last run read files none of which has recognizable required columns.
NoSourceRecognized ==
  /\ files # <<>>
  /\ \A i \in DOMAIN files :
       files[i].readable /\ files[i].rows # <<>> /\ ~files[i].hasRequiredFields

\* The last run read files whose columns were all recognized and none of whose rows
\* meets the thresholds.
NoRowMeetsThresholds ==
  /\ files # <<>>
  /\ \A i \in DOMAIN files :
       /\ files[i].readable /\ files[i].rows # <<>> /\ files[i].hasRequiredFields
       /\ \A r \in DOMAIN files[i].rows : OutsideThresholds(files[i].rows[r])

\* C17: the failure shown when no source has recognizable required columns differs
\* from the failure shown when the columns are recognized and no row meets the
\* thresholds.
C17_DistinctFailureMessages ==
  processingStatus = "error" =>
    /\ NoRowMeetsThresholds =>
         uiError = <<DisplayedError(<<"No valid DNA segment data found in uploaded files">>,
                                    settings)>>
    /\ NoSourceRecognized =>
         /\ uiError # <<>>
         /\ uiError # <<DisplayedError(<<"No valid DNA segment data found in uploaded files">>,
                                       settings)>>

\* ---------------------------------------------------------------------------
\* The segments accepted for a seed
\* ---------------------------------------------------------------------------

\* The length of the region two segments share (not positive when they share none).
OverlapOf(a, b) ==
  (IF a.endPosition < b.endPosition THEN a.endPosition ELSE b.endPosition)
    - (IF a.startPosition > b.startPosition THEN a.startPosition ELSE b.startPosition)

SpanOf(a) == a.endPosition - a.startPosition

\* The overlap is positive and at least overlapThreshold times the shorter span.
Qualifies(base, candidate) ==
  /\ OverlapOf(base, candidate) > 0
  /\ OverlapOf(base, candidate) * settings.overlapThreshold[2]
       >= settings.overlapThreshold[1]
            * (IF SpanOf(base) < SpanOf(candidate) THEN SpanOf(base) ELSE SpanOf(candidate))

\* The seed and every later segment not yet in a group that qualifies against it.
AcceptableFor(i, inGroups) ==
  {i} \cup {j \in (i + 1)..Len(chromosomeMatches) :
              j \notin inGroups /\ Qualifies(chromosomeMatches[i], chromosomeMatches[j])}

\* C20: a pass of the outer loop for a seed accepts the seed first and then exactly
\* the later segments in start order that are in no group yet and whose overlap with
\* the seed is positive and at least overlapThreshold times the shorter of the two
\* spans; no qualifying segment lies beyond the point where the scan stops.
C20_AcceptedSet ==
  [][(gpc = "loop" /\ seed <= Len(chromosomeMatches) /\ seed \notin processed
        /\ seed' = seed + 1)
       => /\ accepted'[1] = seed
          /\ Len(accepted') = Cardinality(Range(accepted'))
          /\ Range(accepted') = AcceptableFor(seed, processed)]_vars

\* The groups returned by the loop are those of the operator the pipeline applies.
GroupLoopResult ==
  gpc = "returned" =>
    chromosomeGroups = findTriangulationsOnChromosome(chromosomeMatches, settings)

\* The scan for seed 1 accepted segment 3, passed segment 2 (which overlaps the seed
\* too little) and stopped at segment 4, which starts after the seed's end.
C20_Witness ==
  /\ gpc = "loop" /\ seed = 2
  /\ Len(chromosomeMatches) = 4
  /\ accepted = <<1, 3>>
  /\ OverlapOf(chromosomeMatches[1], chromosomeMatches[2]) > 0
  /\ chromosomeMatches[4].startPosition > chromosomeMatches[1].endPosition
  /\ Range(accepted) = AcceptableFor(1, {})

\* ---------------------------------------------------------------------------
\* The overlap factor of a scored group
\* ---------------------------------------------------------------------------

\* The pairs of members of a group, each pair once.
PairsOf(matches) == {w \in (DOMAIN matches) \X (DOMAIN matches) : w[1] < w[2]}

\* The overlap of a pair as a percentage of the shorter of its two spans, as a
\* fraction; 0 for a pair that shares no region.
PairPercentage(a, b) ==
  Frac((IF OverlapOf(a, b) > 0 THEN OverlapOf(a, b) ELSE 0) * 100,
       IF SpanOf(a) < SpanOf(b) THEN SpanOf(a) ELSE SpanOf(b))

RECURSIVE SumOfFractions(_)
\* The sum of a set of fractions given as a set of <<pair, fraction>>.
SumOfFractions(tagged) ==
  IF tagged = {} THEN <<0, 1>>
  ELSE LET t == CHOOSE x \in tagged : TRUE
           rest == SumOfFractions(tagged \ {t})
       IN  Frac(t[2][1] * rest[2] + rest[1] * t[2][2], t[2][2] * rest[2])

\* The mean over all pairs of the members of the pairwise overlap percentage.
MeanPairwiseOverlap(matches) ==
  LET total == SumOfFractions({<<w, PairPercentage(matches[w[1]], matches[w[2]])>> :
                                 w \in PairsOf(matches)})
  IN  Frac(total[1], total[2] * Cardinality(PairsOf(matches)))

SameFraction(x, y) == x[1] * y[2] = y[1] * x[2]

\* C21: for every group the pipeline emits, the average overlap that scoring uses
\* is the mean, over all pairs of the group's members, of the pair's overlap as a
\* percentage of the shorter of the pair's two spans, and the confidence score is
\* the weighted sum with that mean as its overlap factor.
C21_OverlapFactorIsMeanOfAllPairs ==
  Finished =>
    \A g \in DOMAIN groups :
      /\ Len(groups[g].matches) >= 2
      /\ SameFraction(calculateAverageOverlap(groups[g].matches),
                      MeanPairwiseOverlap(groups[g].matches))
      /\ settings.enableConfidenceScoring =>
           IsRounded(groups[g].confidenceScore,
                     WeightedNumerator(Len(groups[g].matches), TotalSizeOf(groups[g].matches),
                                       MeanPairwiseOverlap(groups[g].matches)[1],
                                       MeanPairwiseOverlap(groups[g].matches)[2]),
                     WeightedDenominator(Len(groups[g].matches),
                                         MeanPairwiseOverlap(groups[g].matches)[2]))

\* A scored group of three members whose pairs overlap by 90%, 80% and 90%.
C21_Witness ==
  /\ Finished /\ settings.enableConfidenceScoring
  /\ \E g \in DOMAIN groups :
       /\ Len(groups[g].matches) = 3
       /\ {PairPercentage(groups[g].matches[w[1]], groups[g].matches[w[2]]) :
             w \in PairsOf(groups[g].matches)} = {Frac(90, 1), Frac(80, 1)}
       /\ SameFraction(MeanPairwiseOverlap(groups[g].matches), <<260, 3>>)

(***************************************************************************)
(* processTriangulation on matches with explicit ancestral surnames, with  *)
(* names written "Last, First", and on a group that the tree splits        *)
(***************************************************************************)
DoeCommaAnn == <<"D","o","e",","," ","A","n","n">>

\* Dee Poe, whose row lists the ancestral surname Roe.
PoeOfRoeRow  == [Row(DeePoe, 7, 105, 155, 10) EXCEPT !.ancestralSurnames = <<Roe>>]
\* Cy Roe on chromosome 7, overlapping the segments of Ann Doe and Eve Roe-Doe.
CyRoeRow     == Row(CyRoe, 7, 120, 170, 10)
\* Ann Doe, written last name first.
CommaNameRow == Row(DoeCommaAnn, 7, 102, 152, 10)

TreeRowLists ==
  { <<SegmentE, SegmentG, CyRoeRow>>,
    <<PoeOfRoeRow, CyRoeRow>>,
    <<CommaNameRow, SegmentE>>,
    <<SegmentF, PoeOfRoeRow>>,
    <<SmallRow>> }

TreeFileContents ==
  {[readable |-> TRUE, hasRequiredFields |-> TRUE, rows |-> r] : r \in TreeRowLists}
  \cup {[readable |-> FALSE, hasRequiredFields |-> FALSE, rows |-> <<>>]}

TreeFileLists ==
  {[i \in DOMAIN contents |->
      [name |-> FileName(i), readable |-> contents[i].readable,
       hasRequiredFields |-> contents[i].hasRequiredFields, rows |-> contents[i].rows]] :
     contents \in SeqsUpTo(TreeFileContents, MaxFiles)}

InitTree == InitInputs(TreeFileLists, {{}})

SpecTree == InitTree /\ [][Next]_vars

\* ---------------------------------------------------------------------------
\* Tree matches of an identity
\* ---------------------------------------------------------------------------

\* The candidate surnames of an identity: the last token of its display name and
\* its explicit ancestral surnames.
CandidateSurnames(match) ==
  extractSurnamesFromName(match.matchName) \o match.ancestralSurnames

\* Either name contains the other, whatever the case of the letters.
NamesContain(individual, match) ==
  \/ Includes(ToLower(individual.name), ToLower(match.matchName))
  \/ Includes(ToLower(match.matchName), ToLower(individual.name))

TreeIndividuals == Range(genealogicalTree[1].individuals)

\* C22: a tree individual is recorded as a tree match of an identity exactly when
\* its full name contains or is contained by the identity's display name, or one
\* of its surnames containment-matches a candidate surname of the identity (the
\* last token of the display name or an explicit ancestral surname).
C22_TreeMatchUsesCandidateSurnames ==
  (Finished /\ SplittingRan) =>
    \A k \in DOMAIN deduplicatedMatches : \A individual \in TreeIndividuals :
      individual.name \in AncestorsReferencedBy(deduplicatedMatches[k])
        <=> \/ NamesContain(individual, deduplicatedMatches[k])
            \/ SurnamesMatch(individual.surnames,
                             CandidateSurnames(deduplicatedMatches[k]))

\* ---------------------------------------------------------------------------
\* The common-ancestor list of a group
\* ---------------------------------------------------------------------------

\* Every surname seen among the members of a group: name-derived and explicit.
SurnamesSeenIn(group) ==
  FlattenSeq([m \in DOMAIN group.matches |-> CandidateSurnames(group.matches[m])])

\* The names of the tree individuals one of whose surnames contains, or is
\* contained in, a surname seen in the group.
SurnameAncestorsOf(group) ==
  {individual.name : individual \in
     {ind \in TreeIndividuals : SurnamesMatch(ind.surnames, SurnamesSeenIn(group))}}

\* C23 as stated: with cross-verification enabled and a tree loaded, the
\* common-ancestor list of every output group holds exactly the names of the tree
\* individuals having a surname that substring-matches a surname seen among the
\* group's members.
C23_CommonAncestorsAreSurnameMatches ==
  (Finished /\ SplittingRan) =>
    \A g \in DOMAIN groups :
      Range(groups[g].commonAncestors) = SurnameAncestorsOf(groups[g])

\* C23 as the code has it: with cross-verification enabled and a tree loaded, an
\* output group either lists exactly one common ancestor, the name of a tree
\* individual that is among the suggested ancestors of every one of its members,
\* or lists none, and then no member has a suggested ancestor at all.
C23_CommonAncestorIsTheSharedSuggestion ==
  (Finished /\ SplittingRan) =>
    \A g \in DOMAIN groups :
      \/ /\ Len(groups[g].commonAncestors) = 1
         /\ groups[g].commonAncestors[1] \in {ind.name : ind \in TreeIndividuals}
         /\ \A m \in DOMAIN groups[g].matches :
              groups[g].commonAncestors[1] \in AncestorsReferencedBy(groups[g].matches[m])
      \/ /\ groups[g].commonAncestors = <<>>
         /\ \A m \in DOMAIN groups[g].matches :
              AncestorsReferencedBy(groups[g].matches[m]) = {}

\* Two output groups cut from the same segments, one listing Jane Doe and one
\* listing John Roe, with a member that has both as suggested ancestors.
C23_Witness ==
  /\ Finished /\ SplittingRan
  /\ \E g, h \in DOMAIN groups :
       /\ groups[g].commonAncestors = <<JaneDoe>>
       /\ groups[h].commonAncestors = <<JohnRoe>>
       /\ \E m \in DOMAIN groups[g].matches :
            AncestorsReferencedBy(groups[g].matches[m]) = {JaneDoe, JohnRoe}

\* ---------------------------------------------------------------------------
\* What ancestor splitting leaves alone
\* ---------------------------------------------------------------------------

\* A group as grouping made it: everything but the score and the prediction.
CoreOf(group) ==
  [chromosome |-> group.chromosome, startPosition |-> group.startPosition,
   endPosition |-> group.endPosition, matches |-> group.matches,
   totalSize |-> group.totalSize, averageSize |-> group.averageSize,
   commonAncestors |-> group.commonAncestors, treeMatches |-> group.treeMatches]

\* How many groups of a list are, score and prediction apart, the given group.
CopiesIn(list, group) ==
  Cardinality({g \in DOMAIN list : CoreOf(list[g]) = CoreOf(group)})

NoMemberReferencesAnAncestor(group) ==
  \A m \in DOMAIN group.matches : AncestorsReferencedBy(group.matches[m]) = {}

\* C24: a group of the grouping stage none of whose members references a suggested
\* ancestor comes out of ancestor splitting once and unchanged (same members,
\* span, total and average size), and when cross-verification is disabled or no
\* tree is loaded the output groups are the groups of the grouping stage, none
\* split and none dropped.
C24_SplittingLeavesUnreferencedGroupsAlone ==
  Finished =>
    /\ \A i \in DOMAIN initialTriangulationGroups :
         NoMemberReferencesAnAncestor(initialTriangulationGroups[i])
           => CopiesIn(groups, initialTriangulationGroups[i]) = 1
    /\ ~SplittingRan =>
         /\ Len(groups) = Len(initialTriangulationGroups)
         /\ \A i \in DOMAIN initialTriangulationGroups :
              CopiesIn(groups, initialTriangulationGroups[i]) = 1

\* A run in which splitting ran and met a group without any suggested ancestor.
C24_Witness ==
  /\ Finished /\ SplittingRan
  /\ \E i \in DOMAIN initialTriangulationGroups :
       /\ NoMemberReferencesAnAncestor(initialTriangulationGroups[i])
       /\ \E g \in DOMAIN groups :
            /\ groups[g].matches = initialTriangulationGroups[i].matches
            /\ groups[g].startPosition = initialTriangulationGroups[i].startPosition
            /\ groups[g].endPosition = initialTriangulationGroups[i].endPosition
            /\ groups[g].totalSize = initialTriangulationGroups[i].totalSize
            /\ groups[g].averageSize = initialTriangulationGroups[i].averageSize

\* ---------------------------------------------------------------------------
\* Names written last name first
\* ---------------------------------------------------------------------------

\* The names written in the collected rows that describe the segment of a record.
RawNamesOf(record) ==
  {files[w[1]].rows[w[2]].matchName :
     w \in {v \in CollectedRows : Shape(files[v[1]].rows[v[2]]) = Shape(record)}}

\* lastFirst is "Last, First" and firstLast is "First Last" for the same two words.
IsLastFirstOf(lastFirst, firstLast) ==
  /\ Len(SplitOn(lastFirst, {","})) = 2
  /\ Trim(SplitOn(lastFirst, {","})[2]) \o <<" ">> \o Trim(SplitOn(lastFirst, {","})[1])
       = firstLast

WrittenBothWays(a, b) ==
  \E lastFirst \in RawNamesOf(a), firstLast \in RawNamesOf(b) :
    IsLastFirstOf(lastFirst, firstLast)

\* C25: in a pipeline run, a record whose raw name is written "Last, First" and a
\* record whose raw name is the same words written "First Last" get the same
\* canonical key and come out of deduplication under one identity, with the same
\* display name.
C25_LastFirstCollapsesWithFirstLast ==
  Finished =>
    /\ \A a, b \in DOMAIN allRawMatches :
         WrittenBothWays(allRawMatches[a], allRawMatches[b])
           => canonicalizeName(allRawMatches[a].matchName)
                = canonicalizeName(allRawMatches[b].matchName)
    /\ \A a, b \in DOMAIN deduplicatedMatches :
         WrittenBothWays(deduplicatedMatches[a], deduplicatedMatches[b])
           => deduplicatedMatches[a].matchName = deduplicatedMatches[b].matchName

\* ---------------------------------------------------------------------------
\* Which segments a pass of the grouping loop marks as processed
\* ---------------------------------------------------------------------------

\* The region shared by all the segments of the given indices is strictly positive.
SharedSpanIsPositive(indices) ==
  \A i, j \in indices :
    chromosomeMatches[i].endPosition > chromosomeMatches[j].startPosition

\* C26: a pass of the outer loop whose accepted set has fewer than minimumMatches
\* members, or whose members share no region of positive length, emits no group
\* and marks nothing; a pass that emits a group marks exactly its accepted set.
\* So at any point the processed segments are exactly the members of the groups
\* emitted so far, and the others can still seed or join a later group.
C26_MarkedOnlyWhenEmitted ==
  [][(gpc = "loop" /\ seed <= Len(chromosomeMatches) /\ seed \notin processed
        /\ seed' = seed + 1)
       => IF /\ Len(accepted') >= settings.minimumMatches
             /\ SharedSpanIsPositive(Range(accepted'))
          THEN /\ Len(chromosomeGroups') = Len(chromosomeGroups) + 1
               /\ processed' = processed \cup Range(accepted')
          ELSE /\ chromosomeGroups' = chromosomeGroups
               /\ processed' = processed
               /\ \A j \in Range(accepted') : j \notin processed']_vars

\* The first seed collected enough segments, but they share no region: no group
\* was made of them and none was marked; the next seed then made a group with one
\* of them.
C26_Witness ==
  /\ gpc = "loop" /\ seed = 3
  /\ Cardinality(AcceptableFor(1, {})) >= settings.minimumMatches
  /\ ~SharedSpanIsPositive(AcceptableFor(1, {}))
  /\ Len(chromosomeGroups) = 1
  /\ accepted[1] = 2 /\ Len(accepted) >= 2
  /\ Range(accepted) \subseteq AcceptableFor(1, {})
  /\ processed = Range(accepted)

\* ---------------------------------------------------------------------------
\* The sub-groups of ancestor splitting against their parents
\* ---------------------------------------------------------------------------

\* The output groups that ancestor splitting formed for an ancestor.
SubGroups == {g \in DOMAIN groups : groups[g].commonAncestors # <<>>}

\* The groups of the grouping stage a sub-group was cut from: same chromosome,
\* and every member of the sub-group among their members.
ParentsOf(g) ==
  {i \in DOMAIN initialTriangulationGroups :
     /\ initialTriangulationGroups[i].chromosome = groups[g].chromosome
     /\ Range(groups[g].matches) \subseteq Range(initialTriangulationGroups[i].matches)}

\* C27: every sub-group produced by ancestor splitting has its members among those
\* of one group of the grouping stage, its parent, and a span that contains the
\* parent's span (it starts no later and ends no earlier), so that its span is
\* strictly positive.
C27_SubGroupSpanContainsParentSpan ==
  (Finished /\ SplittingRan) =>
    \A g \in SubGroups :
      /\ Cardinality(ParentsOf(g)) = 1
      /\ \A i \in ParentsOf(g) :
           /\ groups[g].startPosition <= initialTriangulationGroups[i].startPosition
           /\ groups[g].endPosition >= initialTriangulationGroups[i].endPosition
           /\ initialTriangulationGroups[i].endPosition
                > initialTriangulationGroups[i].startPosition
      /\ groups[g].endPosition > groups[g].startPosition

\* A sub-group with fewer members than its parent whose span is strictly wider
\* than the parent's.
C27_Witness ==
  /\ Finished /\ SplittingRan
  /\ \E g \in SubGroups : \E i \in ParentsOf(g) :
       /\ Len(groups[g].matches) < Len(initialTriangulationGroups[i].matches)
       /\ groups[g].startPosition < initialTriangulationGroups[i].startPosition
       /\ groups[g].endPosition = initialTriangulationGroups[i].endPosition

\* ---------------------------------------------------------------------------
\* The order in which the segments of a chromosome are supplied
\* ---------------------------------------------------------------------------

\* The groups of a list as a set: the span and the member segments of each.
GroupSetOf(list) ==
  {<<list[g].startPosition, list[g].endPosition, RidsOf(list[g])>> : g \in DOMAIN list}

\* The groups that grouping makes when the segments are supplied in the order f.
GroupsInOrder(f) ==
  GroupSetOf(findTriangulationsOnChromosome(Permutation(chromosomeMatches, f), settings))

OrderIndependent ==
  \A f \in Bijections(Len(chromosomeMatches)) : GroupsInOrder(f) = GroupSetOf(chromosomeGroups)

DistinctStarts ==
  \A i, j \in DOMAIN chromosomeMatches :
    i # j => chromosomeMatches[i].startPosition # chromosomeMatches[j].startPosition

\* C28 as stated: the groups returned for a chromosome (span and member segments)
\* are the same in whatever order the segments are supplied, segments that share
\* a start position included.
C28_GroupsIndependentOfOrder ==
  gpc = "returned" => OrderIndependent

\* C28 as the code has it: the groups returned for a chromosome are the same in
\* whatever order the segments are supplied when no two segments share a start
\* position.
C28_GroupsIndependentOfOrderOfDistinctStarts ==
  (gpc = "returned" /\ DistinctStarts) => OrderIndependent

\* Four segments with distinct starts, supplied in an order that is not the order
\* of their starts, of which some were grouped.
C28_Witness ==
  /\ gpc = "returned" /\ DistinctStarts
  /\ Len(chromosomeMatches) = 4
  /\ chromosomeMatches[1].rid # 1 /\ chromosomeMatches[2].rid > chromosomeMatches[3].rid
  /\ chromosomeGroups # <<>>

\* ---------------------------------------------------------------------------
\* The calculator while a call of processTriangulation is in flight
\* ---------------------------------------------------------------------------

\* C29: once handleReset or handleFilesUploaded has left the status idle and the
\* group list empty, they stay so until the user starts a new run, whatever call
\* is still in flight; and a call that settles while the status is idle, a call
\* started before the upload or the reset, leaves the uploaded files alone.
C29_ClearedViewStaysCleared ==
  [][(/\ processingStatus = "idle" /\ uiTriangulationGroups = <<>>
      /\ Len(inFlight') <= Len(inFlight))
       => /\ processingStatus' = "idle"
          /\ uiTriangulationGroups' = <<>>
          /\ Len(inFlight') < Len(inFlight) => uploadedFiles' = uploadedFiles]_vars

\* C30: at most one call of processTriangulation is in flight at any time.
C30_AtMostOneRunInFlight ==
  Len(inFlight) <= 1

====
